---- MODULE Spec2Model ----
(***************************************************************************)
(* e4docker: the button/configuration lifecycle and the threads.           *)
(*                                                                         *)
(* Disk state: the app config file e4docker.conf (conf), one config file   *)
(* per button (files) and the temporary staging file (tmpfile).            *)
(* One running instance: the E4Config it read at start (config), the       *)
(* names list of the popup handler (buttons_names), the E4Button registry  *)
(* (registry), the UI thread's position (ui, dlg, script) and the restart  *)
(* thread (restart).                                                       *)
(* Threads of the instance: the process monitor (monitor, sys), the UI     *)
(* thread in the checker's receive loop (uithread, channel, border), the   *)
(* launch threads (workers), and the Mutexes they share (guards, command). *)
(***************************************************************************)
EXTENDS Integers, Sequences, FiniteSets, TLC

VARIABLES
    conf,           \* e4docker.conf: key -> value, keys as the Ini holds them
    files,          \* <name>.conf of every button file that exists: name -> Ini
    tmpfile,        \* the temporary file: [exists, ini]
    alive,          \* the instance's process is running
    config,         \* the instance's E4Config (read once, at start)
    buttons_names,  \* main.rs: the names vector the popup handler swaps in place
    registry,       \* the E4Buttons built by create_buttons
    ui,             \* UI thread: "idle", "edit" or "new" (a modal dialog is open)
    dlg,            \* the open dialog's captured state: [old_name]
    script,         \* file writes the running handler still has to perform
    restart,        \* a restart_app thread has been spawned and has not run yet
    lastSpawn,      \* the launch this step made: the E4Command and its child
    alert,          \* the alert dialog this step showed
    op,             \* history: the handler under way or last finished
    dirty,          \* history: a handler of this instance has started to write files
    procs,          \* the processes of the OS process table
    sys,            \* the monitor thread's sysinfo snapshot
    monitor,        \* the monitor thread: [pc, index]
    guards,         \* the registry Mutex and each button's command Mutex
    commands,       \* the E4Command behind each button's Mutex: [cmd, arguments]
    channel,        \* the (index, is_running) messages sent and not yet received
    border,         \* each button's BorderIndicator.is_active
    uithread,       \* the UI thread inside the process checker's loop: [pc, index]
    workers,        \* the threads exec has spawned: [state, cmd, child, returned]
    report          \* history: the last is_process_running call and what it saw

\* The instance and its files.
instance == <<conf, files, tmpfile, alive, config, buttons_names, registry, ui, dlg,
              script, restart, lastSpawn, alert, op, dirty>>

\* The threads of the instance and the processes around it.
threads == <<procs, sys, monitor, guards, commands, channel, border, uithread,
             workers, report>>

vars == <<conf, files, tmpfile, alive, config, buttons_names, registry, ui, dlg,
          script, restart, lastSpawn, alert, op, dirty,
          procs, sys, monitor, guards, commands, channel, border, uithread,
          workers, report>>

disk == <<conf, files, tmpfile>>

-----------------------------------------------------------------------------
(* Bounds and inputs.                                                       *)

\* The longest button list a new button is added to.
MaxButtons == 3

GENERIC == "generic"

\* Names the user may type into a dialog's name field.
Names == {GENERIC, "a", "b"}

\* (command, arguments) pairs the user may leave in a dialog's fields.
GenericCommand == "/usr/bin/generic"
GenericIcon == "generic.png"
InputChoices == {<<GenericCommand, "">>, <<"/usr/bin/foo", "-v">>}

\* The most messages the channel holds, and the most launch threads at a time.
MaxChannel == 3
MaxWorkers == 2

\* Icons the user may pick in a dialog's file chooser.
IconChoices == {"foo.png"}

\* (icon width, icon height) pairs the user may save in the settings dialog.
SettingsChoices == {<<32, 32>>, <<48, 40>>}

\* Defaults of a first start (e4initialize.rs writes them).
DefaultFrameMargin == 10
DefaultMarginBetweenButtons == 20
DefaultIconWidth == 32
DefaultIconHeight == 32

-----------------------------------------------------------------------------
(* The Ini store (configparser::ini::Ini as this program uses it).          *)

\* Ini::new() is case-insensitive: section and key names are lower-cased.
Caser(w) ==
    CASE w = "E4DOCKER" -> "e4docker"
      [] w = "BUTTONS" -> "buttons"
      [] w = "BUTTON" -> "button"
      [] w = "NUMBER_OF_BUTTONS" -> "number_of_buttons"
      [] w = "MARGIN_BETWEEN_BUTTONS" -> "margin_between_buttons"
      [] w = "FRAME_MARGIN" -> "frame_margin"
      [] w = "ICON_WIDTH" -> "icon_width"
      [] w = "ICON_HEIGHT" -> "icon_height"
      [] w = "COMMAND" -> "command"
      [] w = "ARGUMENTS" -> "arguments"
      [] w = "ICON" -> "icon"
      [] w = "X" -> "x"
      [] w = "Y" -> "y"
      [] OTHER -> w

E4DOCKER_DOCKER_SECTION == "E4DOCKER"
E4DOCKER_BUTTON_SECTION == "BUTTONS"
BUTTON_BUTTON_SECTION == "BUTTON"
E4DOCKER_MARGIN_BETWEEN_BUTTONS == "MARGIN_BETWEEN_BUTTONS"
E4DOCKER_FRAME_MARGIN == "FRAME_MARGIN"
E4DOCKER_ICON_WIDTH == "ICON_WIDTH"
E4DOCKER_ICON_HEIGHT == "ICON_HEIGHT"

\* A key name: a word, or format!("button{}", n).  A word carries ordinal -1.
Word(w) == <<Caser(w), -1>>
ButtonKey(n) == <<"button", n>>

\* The place of a value in an Ini: (section, key).
Key(section, key) == <<Caser(section), key>>

EmptyIni == [k \in {} |-> ""]

IniHas(ini, section, key) == Key(section, key) \in DOMAIN ini

IniGet(ini, section, key) == ini[Key(section, key)]

IniSet(ini, section, key, value) ==
    [k \in DOMAIN ini \cup {Key(section, key)} |->
        IF k = Key(section, key) THEN value ELSE ini[k]]

IniRemoveKey(ini, section, key) ==
    [k \in DOMAIN ini \ {Key(section, key)} |-> ini[k]]

-----------------------------------------------------------------------------
(* e4config.rs: reading the configuration.                                  *)

GetOr(ini, section, key, default) ==
    IF IniHas(ini, section, key) THEN IniGet(ini, section, key) ELSE default

\* A width computed without the frame margins.
WindowWidthNoFrame(number_of_buttons, icon_width, margin_between_buttons, frame_margin) ==
    (number_of_buttons * icon_width) + (number_of_buttons * margin_between_buttons)

WindowWidth(number_of_buttons, icon_width, margin_between_buttons, frame_margin) ==
    (number_of_buttons * icon_width)
        + (number_of_buttons * margin_between_buttons)
        + (frame_margin * 2)

WindowHeight(icon_height, frame_margin) == icon_height + (frame_margin * 4)

\* The loop "for n in 1..=number_of_buttons": a missing key reads as "".
ReadButtons(ini, number_of_buttons) ==
    [n \in 1..number_of_buttons |->
        GetOr(ini, E4DOCKER_BUTTON_SECTION, ButtonKey(n), "")]

Read(ini) ==
    LET number_of_buttons ==
            GetOr(ini, E4DOCKER_DOCKER_SECTION, Word("NUMBER_OF_BUTTONS"), 0)
        margin_between_buttons ==
            GetOr(ini, E4DOCKER_DOCKER_SECTION, Word(E4DOCKER_MARGIN_BETWEEN_BUTTONS), 0)
        frame_margin ==
            GetOr(ini, E4DOCKER_DOCKER_SECTION, Word(E4DOCKER_FRAME_MARGIN), 0)
        icon_width ==
            GetOr(ini, E4DOCKER_DOCKER_SECTION, Word(E4DOCKER_ICON_WIDTH), 0)
        icon_height ==
            GetOr(ini, E4DOCKER_DOCKER_SECTION, Word(E4DOCKER_ICON_HEIGHT), 0)
    IN  [buttons |-> ReadButtons(ini, number_of_buttons),
         margin_between_buttons |-> margin_between_buttons,
         frame_margin |-> frame_margin,
         window_width |-> WindowWidth(number_of_buttons, icon_width,
                                      margin_between_buttons, frame_margin),
         window_height |-> WindowHeight(icon_height, frame_margin),
         icon_width |-> icon_width,
         icon_height |-> icon_height]

\* get_number_of_buttons: the value on disk now (the caller panics on Err).
GetNumberOfButtons(ini) ==
    IniGet(ini, E4DOCKER_DOCKER_SECTION, Word("NUMBER_OF_BUTTONS"))

-----------------------------------------------------------------------------
(* e4button.rs: a button's configuration and the registry.                  *)

\* str::trim on the argument texts of this model: blank text becomes empty.
Trim(s) == IF s = " " THEN "" ELSE s

GenericIconPath == "assets/generic.png"

\* A button file that cannot be loaded leaves the Ini empty (an alert is shown).
ButtonIni(fs, button_name) ==
    IF button_name \in DOMAIN fs THEN fs[button_name] ELSE EmptyIni

\* A read_config without the default of the ICON key.
ReadConfigNoIconDefault(fs, button_name) ==
    LET ini == ButtonIni(fs, button_name)
    IN  [cmd |-> GetOr(ini, BUTTON_BUTTON_SECTION, Word("COMMAND"), ""),
         arguments |-> Trim(GetOr(ini, BUTTON_BUTTON_SECTION, Word("ARGUMENTS"), "")),
         icon_path |-> GetOr(ini, BUTTON_BUTTON_SECTION, Word("ICON"), "")]

\* read_config: the three keys of the button's file, with their defaults.
ReadConfig(fs, button_name) ==
    LET ini == ButtonIni(fs, button_name)
    IN  [cmd |-> GetOr(ini, BUTTON_BUTTON_SECTION, Word("COMMAND"), ""),
         arguments |-> Trim(GetOr(ini, BUTTON_BUTTON_SECTION, Word("ARGUMENTS"), "")),
         icon_path |-> GetOr(ini, BUTTON_BUTTON_SECTION, Word("ICON"), GenericIconPath)]

\* A create_buttons that builds the buttons from the last name to the first.
CreateButtonsReversed(cfg, fs) ==
    [i \in 1..Len(cfg.buttons) |->
        LET button_name == cfg.buttons[(Len(cfg.buttons) + 1) - i]
        IN  [name |-> button_name,
             cmd |-> GetOr(ButtonIni(fs, button_name), BUTTON_BUTTON_SECTION, Word("COMMAND"), ""),
             arguments |-> "",
             icon |-> GenericIconPath]]

CreateButtons(cfg, fs) ==
    [i \in 1..Len(cfg.buttons) |->
        LET button_config == ReadConfig(fs, cfg.buttons[i])
        IN  [name |-> cfg.buttons[i],
             cmd |-> button_config.cmd,
             arguments |-> button_config.arguments,
             icon |-> button_config.icon_path]]

\* main.rs builds buttons_names from a second create_buttons pass.
ButtonsNames(cfg, fs) ==
    [i \in 1..Len(cfg.buttons) |-> CreateButtons(cfg, fs)[i].name]

-----------------------------------------------------------------------------
(* e4command.rs: the child process a launch starts.                         *)

\* The Command that exec builds: the program and the argument tokens given it.
Exec(cmd, arguments) ==
    IF arguments # ""
    THEN [program |-> cmd, args |-> <<>>]
    ELSE [program |-> cmd, args |-> <<arguments>>]

-----------------------------------------------------------------------------
(* File writes of a handler, in the order the handler performs them.        *)

SetValueItem(section, key, value) ==
    [op |-> "set_value", section |-> section, key |-> key, value |-> value]

RemoveKeyItem(section, key) ==
    [op |-> "remove_key", section |-> section, key |-> key]

RemoveFileItem(name) == [op |-> "remove_file", name |-> name]

\* tmp_config.set(command), tmp_config.set(arguments), tmp_config.write(tmp).
SaveTmpItem(command, arguments) ==
    [op |-> "save_tmp", command |-> command, arguments |-> arguments]

\* std::fs::copy(tmp_file_path, config_file).
CopyTmpItem(name) == [op |-> "copy_tmp", name |-> name]

RestartItem == [op |-> "restart_app"]

\* set_number_of_buttons(number).
SetNumberOfButtons(number) ==
    SetValueItem(E4DOCKER_DOCKER_SECTION, Word("NUMBER_OF_BUTTONS"), number)

\* A save_buttons that numbers the keys from 0.
SaveButtonsFromZero(buttons) ==
    [p \in 1..Len(buttons) |->
        SetValueItem(E4DOCKER_BUTTON_SECTION, ButtonKey(p - 1), buttons[p])]

\* save_buttons: the i-th entry (counted from 0) goes to key button{i+1}.
SaveButtons(buttons) ==
    [p \in 1..Len(buttons) |->
        SetValueItem(E4DOCKER_BUTTON_SECTION, ButtonKey((p - 1) + 1), buttons[p])]

\* A swap that overwrites the first entry and loses its old value.
SwapEntriesLost(buttons, first_button_index, second_button_index) ==
    [p \in 1..Len(buttons) |->
        IF p = first_button_index + 1 THEN buttons[second_button_index + 1]
        ELSE buttons[p]]

\* swap_buttons exchanges the two entries in the caller's vector.
SwapEntries(buttons, first_button_index, second_button_index) ==
    [p \in 1..Len(buttons) |->
        IF p = first_button_index + 1 THEN buttons[second_button_index + 1]
        ELSE IF p = second_button_index + 1 THEN buttons[first_button_index + 1]
        ELSE buttons[p]]

\* delete: the new vector holds every name that differs from the button's.
DeleteKept(old_buttons, name) == SelectSeq(old_buttons, LAMBDA b : b # name)

\* A delete that does not remove the old ordinal keys first.
DeleteScriptNoRemove(old_buttons, name) ==
    <<RemoveFileItem(name)>>
        \o <<SetNumberOfButtons(Len(DeleteKept(old_buttons, name)))>>
        \o SaveButtons(DeleteKept(old_buttons, name))
        \o <<RestartItem>>

\* delete removes the key of every old ordinal, then writes count and names.
DeleteScript(old_buttons, name) ==
    <<RemoveFileItem(name)>>
        \o [p \in 1..Len(old_buttons) |->
                RemoveKeyItem(E4DOCKER_BUTTON_SECTION, ButtonKey((p - 1) + 1))]
        \o <<SetNumberOfButtons(Len(DeleteKept(old_buttons, name)))>>
        \o SaveButtons(DeleteKept(old_buttons, name))
        \o <<RestartItem>>

\* edit's save: n is the ordinal of the last entry equal to old_name, else 0.
EditOrdinal(buttons, old_name) ==
    LET hits == {p \in 1..Len(buttons) : buttons[p] = old_name}
    IN  IF hits = {} THEN 0 ELSE CHOOSE p \in hits : \A q \in hits : q <= p

\* An edit save that calls restart_app before the copy over the button's file.
EditScriptRestartEarly(buttons, old_name, name, command, arguments) ==
    <<SaveTmpItem(command, arguments),
      SetValueItem(E4DOCKER_BUTTON_SECTION,
                   ButtonKey(EditOrdinal(buttons, old_name)), name),
      RestartItem,
      CopyTmpItem(name)>>

EditScript(buttons, old_name, name, command, arguments) ==
    <<SaveTmpItem(command, arguments),
      SetValueItem(E4DOCKER_BUTTON_SECTION,
                   ButtonKey(EditOrdinal(buttons, old_name)), name),
      CopyTmpItem(name),
      RestartItem>>

PanicItem == [op |-> "panic"]

\* A new_button save that writes the names and leaves the count as it is.
NewButtonScriptSameCount(buttons, ini, name, command, arguments) ==
    <<SaveTmpItem(command, arguments), CopyTmpItem(name)>>
        \o SaveButtons(Append(buttons, name))
        \o <<RestartItem>>

\* new_button's save: the count comes from the file, the names from memory.
\* When get_number_of_buttons is Err the callback panics, after its copy.
NewButtonScript(buttons, ini, name, command, arguments) ==
    IF IniHas(ini, E4DOCKER_DOCKER_SECTION, Word("NUMBER_OF_BUTTONS"))
    THEN <<SaveTmpItem(command, arguments),
           CopyTmpItem(name),
           SetNumberOfButtons(GetNumberOfButtons(ini) + 1)>>
             \o SaveButtons(Append(buttons, name))
             \o <<RestartItem>>
    ELSE <<SaveTmpItem(command, arguments), CopyTmpItem(name), PanicItem>>

SettingsScript(icon_width, icon_height) ==
    <<SetValueItem(E4DOCKER_DOCKER_SECTION, Word(E4DOCKER_ICON_WIDTH), icon_width),
      SetValueItem(E4DOCKER_DOCKER_SECTION, Word(E4DOCKER_ICON_HEIGHT), icon_height),
      RestartItem>>

\* The Ini a dialog callback gets from loading the temporary file.
LoadTmp(tmp) == IF tmp.exists THEN tmp.ini ELSE EmptyIni

-----------------------------------------------------------------------------
(* e4processes.rs: text and the matching of processes.  A text is the      *)
(* sequence of its characters; an OsStr is [bytes, utf8], utf8 telling     *)
(* whether to_str() yields its text.  The paths here have no "." or ".."   *)
(* component.                                                              *)

None == [some |-> FALSE, val |-> <<>>]
Some(v) == [some |-> TRUE, val |-> v]

\* The command texts of the registry, character by character.
Chars(s) ==
    CASE s = "/usr/bin/generic" ->
            <<"/","u","s","r","/","b","i","n","/","g","e","n","e","r","i","c">>
      [] s = "/usr/bin/foo" -> <<"/","u","s","r","/","b","i","n","/","f","o","o">>
      [] s = "foo" -> <<"f","o","o">>
      [] s = "generic" -> <<"g","e","n","e","r","i","c">>
      [] s = "sh" -> <<"s","h">>
      [] s = "-" -> <<"-">>
      [] OTHER -> <<>>

OsStr(s) == [bytes |-> Chars(s), utf8 |-> TRUE]

\* An OsStr that is not valid UTF-8: the bytes of s and one more.
NotUtf8(s) == [bytes |-> Chars(s) \o <<"?">>, utf8 |-> FALSE]

\* OsStr::to_str.
ToStr(os) == IF os.utf8 THEN Some(os.bytes) ELSE None

\* str::contains.
StrContains(haystack, needle) ==
    \E k \in 0..(Len(haystack) - Len(needle)) :
        SubSeq(haystack, k + 1, k + Len(needle)) = needle

\* Path::file_name: the last component, an ending "/" left aside; None
\* when there is none.
RECURSIVE StripSlashes(_)
StripSlashes(path) ==
    IF Len(path) > 1 /\ path[Len(path)] = "/"
    THEN StripSlashes(SubSeq(path, 1, Len(path) - 1))
    ELSE path

FileName(path) ==
    LET p == StripSlashes(path)
        slashes == {k \in 1..Len(p) : p[k] = "/"}
        first == IF slashes = {} THEN 1
                 ELSE (CHOOSE k \in slashes : \A q \in slashes : q <= k) + 1
    IN  IF first > Len(p) THEN None ELSE Some(SubSeq(p, first, Len(p)))

\* is_process_running: file_name().and_then(to_str).unwrap_or(process_path).
ProcessName(process_path) ==
    IF FileName(process_path).some THEN FileName(process_path).val
    ELSE process_path

\* process.cmd().iter().any(|cmd| cmd.to_str().unwrap().contains(name)).
RECURSIVE CmdOutcome(_, _)
CmdOutcome(cmd, process_name) ==
    IF cmd = <<>> THEN "nomatch"
    ELSE IF ~ToStr(Head(cmd)).some THEN "panic"
    ELSE IF StrContains(ToStr(Head(cmd)).val, process_name) THEN "match"
    ELSE CmdOutcome(Tail(cmd), process_name)

\* The closure of any(..) on one process: the name first, then the command
\* line; unwrap() panics on text that is not valid UTF-8.
ProcessOutcome(process, process_name) ==
    IF ~ToStr(process.name).some THEN "panic"
    ELSE IF StrContains(ToStr(process.name).val, process_name) THEN "match"
    ELSE CmdOutcome(process.cmd, process_name)

\* is_process_running: what the call can end in.  The processes are visited
\* in the order of a HashMap, and any(..) stops at the first match.
IsProcessRunning(snapshot, process_path) ==
    LET outcomes == {ProcessOutcome(process, ProcessName(process_path)) :
                        process \in snapshot}
    IN  (IF "match" \in outcomes THEN {"true"} ELSE {})
            \cup (IF "panic" \in outcomes THEN {"panic"} ELSE {})
            \cup (IF outcomes \subseteq {"nomatch"} THEN {"false"} ELSE {})

\* The processes that may be running beside the program.
ProcChoices ==
    {[name |-> OsStr("generic"), cmd |-> <<OsStr("/usr/bin/generic")>>],
     [name |-> OsStr("sh"), cmd |-> <<OsStr("sh"), OsStr("/usr/bin/foo")>>],
     [name |-> NotUtf8("sh"), cmd |-> <<OsStr("-")>>]}

-----------------------------------------------------------------------------
(* State.                                                                   *)

NoTmp == [exists |-> FALSE, ini |-> EmptyIni]
NoDlg == [old_name |-> ""]
NoSpawn == [launched |-> FALSE, cmd |-> "", arguments |-> "",
            child |-> [program |-> "", args |-> <<>>]]
NoAlert == ""
NoOp == [kind |-> "none", status |-> "idle", name |-> "", newname |-> "",
         command |-> "", arguments |-> "",
         i |-> 0, j |-> 0,
         conf |-> EmptyIni, files |-> EmptyIni, tmp |-> NoTmp, names |-> <<>>]

\* The history record of a handler that starts in the current state: what it
\* acts on and the files as it finds them.
Begin(kind, status, name, i, j) ==
    [kind |-> kind, status |-> status, name |-> name, newname |-> "",
     command |-> "", arguments |-> "",
     i |-> i, j |-> j,
     conf |-> conf, files |-> files, tmp |-> tmpfile, names |-> buttons_names]

\* What get_package_config_dir writes on a first start.
InitialConf ==
    [k \in {Key("e4docker", Word("number_of_buttons")),
            Key("e4docker", Word("frame_margin")),
            Key("e4docker", Word("margin_between_buttons")),
            Key("e4docker", Word("icon_width")),
            Key("e4docker", Word("icon_height")),
            Key("buttons", ButtonKey(1))} |->
        CASE k = Key("e4docker", Word("number_of_buttons")) -> 1
          [] k = Key("e4docker", Word("frame_margin")) -> DefaultFrameMargin
          [] k = Key("e4docker", Word("margin_between_buttons")) ->
                DefaultMarginBetweenButtons
          [] k = Key("e4docker", Word("icon_width")) -> DefaultIconWidth
          [] k = Key("e4docker", Word("icon_height")) -> DefaultIconHeight
          [] OTHER -> GENERIC]

InitialGenericConf ==
    [k \in {Key("button", Word("arguments")),
            Key("button", Word("icon")),
            Key("button", Word("command"))} |->
        CASE k = Key("button", Word("arguments")) -> ""
          [] k = Key("button", Word("icon")) -> GenericIcon
          [] OTHER -> GenericCommand]

InitialFiles == [n \in {GENERIC} |-> InitialGenericConf]

\* No is_process_running call has been made yet.
NoReport == [sent |-> FALSE, index |-> 0, cmd |-> <<>>, snapshot |-> {},
             is_running |-> FALSE]

\* The threads and Mutexes of an instance that has just built the buttons
\* reg: setup_process_checker wraps them and starts the monitor thread.
StartedThreads(reg) ==
    [sys |-> {},
     monitor |-> [pc |-> "refresh", index |-> 0],
     guards |-> [registry |-> "free",
                 registry_poisoned |-> FALSE,
                 command |-> [i \in 1..Len(reg) |-> "free"],
                 command_poisoned |-> [i \in 1..Len(reg) |-> FALSE]],
     commands |-> [i \in 1..Len(reg) |->
                    [cmd |-> Chars(reg[i].cmd), arguments |-> reg[i].arguments]],
     channel |-> <<>>,
     border |-> [i \in 1..Len(reg) |-> FALSE],
     uithread |-> [pc |-> "loop", index |-> 0, is_running |-> FALSE,
                   cmd |-> <<>>, arguments |-> ""],
     workers |-> <<>>,
     report |-> NoReport]

\* main: redraw_window reads the configuration and builds the buttons.
Load(ini, fs) ==
    /\ alive' = TRUE
    /\ config' = Read(ini)
    /\ registry' = CreateButtons(Read(ini), fs)
    /\ buttons_names' = ButtonsNames(Read(ini), fs)
    /\ ui' = "idle"
    /\ dlg' = NoDlg
    /\ script' = <<>>
    /\ restart' = FALSE
    /\ lastSpawn' = NoSpawn
    /\ alert' = IF \E p \in 1..Len(Read(ini).buttons) : Read(ini).buttons[p] \notin DOMAIN fs
                THEN "cannot-load-the-button-config-file" ELSE NoAlert
    /\ op' = NoOp
    /\ dirty' = FALSE
    /\ sys' = StartedThreads(CreateButtons(Read(ini), fs)).sys
    /\ monitor' = StartedThreads(CreateButtons(Read(ini), fs)).monitor
    /\ guards' = StartedThreads(CreateButtons(Read(ini), fs)).guards
    /\ commands' = StartedThreads(CreateButtons(Read(ini), fs)).commands
    /\ channel' = StartedThreads(CreateButtons(Read(ini), fs)).channel
    /\ border' = StartedThreads(CreateButtons(Read(ini), fs)).border
    /\ uithread' = StartedThreads(CreateButtons(Read(ini), fs)).uithread
    /\ workers' = StartedThreads(CreateButtons(Read(ini), fs)).workers
    /\ report' = StartedThreads(CreateButtons(Read(ini), fs)).report
    /\ UNCHANGED procs

Init ==
    /\ conf = InitialConf
    /\ files = InitialFiles
    /\ tmpfile = NoTmp
    /\ alive = TRUE
    /\ config = Read(InitialConf)
    /\ registry = CreateButtons(Read(InitialConf), InitialFiles)
    /\ buttons_names = ButtonsNames(Read(InitialConf), InitialFiles)
    /\ ui = "idle"
    /\ dlg = NoDlg
    /\ script = <<>>
    /\ restart = FALSE
    /\ lastSpawn = NoSpawn
    /\ alert = NoAlert
    /\ op = NoOp
    /\ dirty = FALSE
    /\ procs = {}
    /\ sys = StartedThreads(registry).sys
    /\ monitor = StartedThreads(registry).monitor
    /\ guards = StartedThreads(registry).guards
    /\ commands = StartedThreads(registry).commands
    /\ channel = StartedThreads(registry).channel
    /\ border = StartedThreads(registry).border
    /\ uithread = StartedThreads(registry).uithread
    /\ workers = StartedThreads(registry).workers
    /\ report = StartedThreads(registry).report

\* The UI thread is in its event loop, outside every callback and dialog.
UIIdle == alive /\ ui = "idle" /\ script = <<>>

-----------------------------------------------------------------------------
(* UI handlers.  A handler that writes files leaves its writes in script;   *)
(* WriteStep performs them one at a time, the UI thread being inside the    *)
(* callback until the last one is done.                                     *)

\* Left click on button i (counted from 0): the callback calls exec.
Click(i) ==
    /\ UIIdle
    /\ i \in 0..(Len(registry) - 1)
    /\ lastSpawn' = [launched |-> TRUE,
                     cmd |-> registry[i + 1].cmd,
                     arguments |-> registry[i + 1].arguments,
                     child |-> Exec(registry[i + 1].cmd, registry[i + 1].arguments)]
    /\ alert' = NoAlert
    /\ op' = NoOp
    /\ UNCHANGED <<conf, files, tmpfile, alive, config, buttons_names, registry,
                   ui, dlg, script, restart>>
    /\ UNCHANGED dirty
    /\ UNCHANGED threads

\* Popup menu, "move left" on button i: offered unless i = 0.
MoveLeft(i) ==
    /\ UIIdle
    /\ i \in 0..(Len(registry) - 1)
    /\ i # 0
    /\ buttons_names' = SwapEntries(buttons_names, i, i - 1)
    /\ script' = SaveButtons(SwapEntries(buttons_names, i, i - 1)) \o <<RestartItem>>
    /\ op' = Begin("swap", "running", "", i, i - 1)
    /\ lastSpawn' = NoSpawn
    /\ alert' = NoAlert
    /\ UNCHANGED <<conf, files, tmpfile, alive, config, registry, ui, dlg, restart>>
    /\ dirty' = (dirty \/ script' # <<>>)
    /\ UNCHANGED threads

\* Popup menu, "move right" on button i: offered unless i is the last index
\* of a list of two or more (for i = 0 the first branch activates it).
MoveRightOffered(i, len) == i = 0 \/ ~(i = len - 1)

MoveRight(i) ==
    /\ UIIdle
    /\ i \in 0..(Len(registry) - 1)
    /\ MoveRightOffered(i, Len(registry))
    /\ lastSpawn' = NoSpawn
    /\ alert' = NoAlert
    /\ IF i + 1 < Len(buttons_names)
       THEN /\ buttons_names' = SwapEntries(buttons_names, i, i + 1)
            /\ script' = SaveButtons(SwapEntries(buttons_names, i, i + 1))
                            \o <<RestartItem>>
            /\ op' = Begin("swap", "running", "", i, i + 1)
            /\ UNCHANGED <<alive, restart>>
       ELSE \* buttons[second_button_index] is out of bounds: the thread panics
            /\ alive' = FALSE
            /\ restart' = FALSE
            /\ op' = NoOp
            /\ UNCHANGED <<buttons_names, script>>
    /\ UNCHANGED <<conf, files, tmpfile, config, registry, ui, dlg>>
    /\ dirty' = (dirty \/ script' # <<>>)
    /\ UNCHANGED threads

\* A delete without the check of the name against GENERIC.
DeleteUnguarded(i) ==
    /\ UIIdle
    /\ i \in 0..(Len(registry) - 1)
    /\ lastSpawn' = NoSpawn
    /\ alert' = NoAlert
    /\ op' = Begin("delete", "running", registry[i + 1].name, i, 0)
    /\ script' = DeleteScript(config.buttons, registry[i + 1].name)
    /\ UNCHANGED <<conf, files, tmpfile, alive, config, buttons_names, registry,
                   ui, dlg, restart>>
    /\ dirty' = (dirty \/ script' # <<>>)
    /\ UNCHANGED threads

\* Popup menu, "delete" on button i.
Delete(i) ==
    /\ UIIdle
    /\ i \in 0..(Len(registry) - 1)
    /\ lastSpawn' = NoSpawn
    /\ IF registry[i + 1].name = GENERIC
       THEN /\ alert' = "cannot-delete-the-generic-button"
            /\ op' = Begin("delete", "rejected", registry[i + 1].name, i, 0)
            /\ UNCHANGED script
       ELSE /\ alert' = NoAlert
            /\ op' = Begin("delete", "running", registry[i + 1].name, i, 0)
            /\ script' = DeleteScript(config.buttons, registry[i + 1].name)
    /\ UNCHANGED <<conf, files, tmpfile, alive, config, buttons_names, registry,
                   ui, dlg, restart>>
    /\ dirty' = (dirty \/ script' # <<>>)
    /\ UNCHANGED threads

\* Popup menu, "edit" on button i: the button's file is copied to the
\* temporary file (a failed copy is ignored) and the dialog opens.
EditOpen(i) ==
    /\ UIIdle
    /\ i \in 0..(Len(registry) - 1)
    /\ tmpfile' = IF registry[i + 1].name \in DOMAIN files
                  THEN [exists |-> TRUE, ini |-> files[registry[i + 1].name]]
                  ELSE tmpfile
    /\ ui' = "edit"
    /\ dlg' = [old_name |-> registry[i + 1].name]
    /\ op' = Begin("edit", "dialog", registry[i + 1].name, i, 0)
    /\ lastSpawn' = NoSpawn
    /\ alert' = NoAlert
    /\ UNCHANGED <<conf, files, alive, config, buttons_names, registry, script,
                   restart>>
    /\ UNCHANGED dirty
    /\ UNCHANGED threads

\* The edit dialog's save button, with the fields as the user left them.
EditSave(name, command, arguments) ==
    /\ alive
    /\ ui = "edit"
    /\ ui' = "idle"
    /\ dlg' = NoDlg
    /\ lastSpawn' = NoSpawn
    /\ IF name = GENERIC
       THEN /\ alert' = "cannot-modify-the-generic-button"
            /\ op' = [op EXCEPT !.status = "rejected", !.newname = name,
                                 !.command = command, !.arguments = arguments,
                                 !.tmp = tmpfile]
            /\ UNCHANGED script
       ELSE /\ alert' = NoAlert
            /\ op' = [op EXCEPT !.status = "running", !.newname = name,
                                 !.command = command, !.arguments = arguments,
                                 !.tmp = tmpfile]
            /\ script' = EditScript(config.buttons, dlg.old_name, name,
                                    command, arguments)
    /\ UNCHANGED <<conf, files, tmpfile, alive, config, buttons_names, registry,
                   restart>>
    /\ dirty' = (dirty \/ script' # <<>>)
    /\ UNCHANGED threads

\* Menu bar, "new button": generic.conf is copied to the temporary file
\* (the thread panics when the copy fails) and the dialog opens.
NewOpen ==
    /\ UIIdle
    /\ lastSpawn' = NoSpawn
    /\ alert' = NoAlert
    /\ IF GENERIC \in DOMAIN files
       THEN /\ tmpfile' = [exists |-> TRUE, ini |-> files[GENERIC]]
            /\ ui' = "new"
            /\ dlg' = [old_name |-> GENERIC]
            /\ op' = Begin("new", "dialog", GENERIC, 0, 0)
            /\ UNCHANGED <<alive, restart>>
       ELSE /\ alive' = FALSE
            /\ restart' = FALSE
            /\ op' = NoOp
            /\ UNCHANGED <<tmpfile, ui, dlg>>
    /\ UNCHANGED <<conf, files, config, buttons_names, registry, script>>
    /\ UNCHANGED dirty
    /\ UNCHANGED threads

\* The new-button dialog's save button.  The name field is pre-filled with
\* GENERIC and is not checked.
NewSave(name, command, arguments) ==
    /\ alive
    /\ ui = "new"
    /\ Len(config.buttons) < MaxButtons
    /\ GetOr(conf, E4DOCKER_DOCKER_SECTION, Word("NUMBER_OF_BUTTONS"), 0) < MaxButtons
    /\ ui' = "idle"
    /\ dlg' = NoDlg
    /\ lastSpawn' = NoSpawn
    /\ alert' = NoAlert
    /\ op' = [op EXCEPT !.status = "running", !.newname = name,
                         !.command = command, !.arguments = arguments,
                         !.tmp = tmpfile]
    /\ script' = NewButtonScript(config.buttons, conf, name, command, arguments)
    /\ UNCHANGED <<conf, files, tmpfile, alive, config, buttons_names, registry,
                   restart>>
    /\ dirty' = (dirty \/ script' # <<>>)
    /\ UNCHANGED threads

\* A dialog's icon button: the chosen path is written to the temporary file.
DialogIcon(image_path) ==
    /\ alive
    /\ ui \in {"edit", "new"}
    /\ tmpfile' = [exists |-> TRUE,
                   ini |-> IniSet(LoadTmp(tmpfile), BUTTON_BUTTON_SECTION,
                                  Word("icon"), image_path)]
    /\ lastSpawn' = NoSpawn
    /\ alert' = IF tmpfile.exists THEN NoAlert
                ELSE "cannot-load-the-button-config-file"
    /\ UNCHANGED <<conf, files, alive, config, buttons_names, registry, ui, dlg,
                   script, restart, op>>
    /\ UNCHANGED dirty
    /\ UNCHANGED threads

\* A dialog is closed without saving.
DialogClose ==
    /\ alive
    /\ ui \in {"edit", "new"}
    /\ ui' = "idle"
    /\ dlg' = NoDlg
    /\ op' = NoOp
    /\ lastSpawn' = NoSpawn
    /\ alert' = NoAlert
    /\ UNCHANGED <<conf, files, tmpfile, alive, config, buttons_names, registry,
                   script, restart>>
    /\ UNCHANGED dirty
    /\ UNCHANGED threads

\* Menu bar, "settings", and the dialog's save button.
SettingsSave(icon_width, icon_height) ==
    /\ UIIdle
    /\ script' = SettingsScript(icon_width, icon_height)
    /\ op' = Begin("settings", "running", "", 0, 0)
    /\ lastSpawn' = NoSpawn
    /\ alert' = NoAlert
    /\ UNCHANGED <<conf, files, tmpfile, alive, config, buttons_names, registry,
                   ui, dlg, restart>>
    /\ dirty' = (dirty \/ script' # <<>>)
    /\ UNCHANGED threads

-----------------------------------------------------------------------------
(* The writes themselves, the restart thread and the process.               *)

\* A set_value that skips the load: a fresh Ini, the key set, the file written.
SetValueNoLoad(ini, section, key, value) == IniSet(EmptyIni, section, key, value)

\* set_value: load e4docker.conf, set the key, write the file.
SetValue(ini, section, key, value) == IniSet(ini, section, key, value)

\* remove_key: load e4docker.conf, remove the key, write the file.
RemoveKey(ini, section, key) == IniRemoveKey(ini, section, key)

\* The save callbacks' write of the temporary file.
SaveTmp(tmp, command, arguments) ==
    [exists |-> TRUE,
     ini |-> IniSet(IniSet(LoadTmp(tmp), BUTTON_BUTTON_SECTION,
                           Word("command"), command),
                    BUTTON_BUTTON_SECTION, Word("arguments"), arguments)]

\* std::fs::copy(tmp, <name>.conf): the file is created or overwritten.
CopyTmp(fs, tmp, name) ==
    [n \in DOMAIN fs \cup {name} |-> IF n = name THEN tmp.ini ELSE fs[n]]

\* std::fs::remove_file(<name>.conf).
RemoveFile(fs, name) == [n \in DOMAIN fs \ {name} |-> fs[n]]

\* The status of the handler once the head of its script is done.
After(rest) == IF rest = <<>> THEN "done" ELSE "running"

\* The running handler performs its next write (or its restart_app call).
WriteStep ==
    /\ alive
    /\ script # <<>>
    /\ LET item == Head(script)
           rest == Tail(script)
       IN  /\ script' = IF item.op = "panic" THEN <<>> ELSE rest
           /\ op' = IF item.op = "panic" THEN NoOp
                    ELSE [op EXCEPT !.status = After(rest)]
           /\ conf' = CASE item.op = "set_value" ->
                             SetValue(conf, item.section, item.key, item.value)
                        [] item.op = "remove_key" ->
                             RemoveKey(conf, item.section, item.key)
                        [] OTHER -> conf
           /\ files' = CASE item.op = "remove_file" -> RemoveFile(files, item.name)
                         [] item.op = "copy_tmp" -> CopyTmp(files, tmpfile, item.name)
                         [] OTHER -> files
           /\ tmpfile' = IF item.op = "save_tmp"
                         THEN SaveTmp(tmpfile, item.command, item.arguments)
                         ELSE tmpfile
           /\ restart' = IF item.op = "restart_app" THEN TRUE
                         ELSE IF item.op = "panic" THEN FALSE ELSE restart
           /\ alive' = (item.op # "panic")
           /\ alert' = IF item.op = "remove_file" /\ item.name \notin DOMAIN files
                       THEN "cannot-remove-the-config-file" ELSE NoAlert
    /\ lastSpawn' = NoSpawn
    /\ UNCHANGED <<config, buttons_names, registry, ui, dlg>>
    /\ UNCHANGED dirty
    /\ UNCHANGED threads

\* restart_app's thread: the new instance is spawned, the process exits.
RestartExec ==
    /\ alive
    /\ restart
    /\ Load(conf, files)
    /\ UNCHANGED <<conf, files, tmpfile>>

\* restart_app's thread: spawn fails, expect panics in the thread, and the
\* instance goes on running.
RestartFail ==
    /\ alive
    /\ restart
    /\ restart' = FALSE
    /\ lastSpawn' = NoSpawn
    /\ alert' = NoAlert
    /\ UNCHANGED <<conf, files, tmpfile, alive, config, buttons_names, registry,
                   ui, dlg, script, op>>
    /\ UNCHANGED dirty
    /\ UNCHANGED threads

\* The user starts the program again after it has died.
Start ==
    /\ ~alive
    /\ Load(conf, files)
    /\ UNCHANGED <<conf, files, tmpfile>>

\* The user's actions on the running instance.  A handler that writes files
\* ends in restart_app; here the user starts no further handler in an
\* instance that has started one (each is followed by the reload it triggers).
\* The icon chooser of the dialogs (DialogIcon) changes the ICON key of the
\* temporary file only and is not among the steps explored here.
Next ==
    \/ \E i \in 0..MaxButtons : Click(i)
    \/ ~dirty /\ \E i \in 0..MaxButtons : MoveLeft(i)
    \/ ~dirty /\ \E i \in 0..MaxButtons : MoveRight(i)
    \/ ~dirty /\ \E i \in 0..MaxButtons : Delete(i)
    \/ ~dirty /\ \E i \in 0..MaxButtons : EditOpen(i)
    \/ \E name \in Names, input \in InputChoices : EditSave(name, input[1], input[2])
    \/ ~dirty /\ NewOpen
    \/ \E name \in Names, input \in InputChoices : NewSave(name, input[1], input[2])
    \/ DialogClose
    \/ ~dirty /\ \E size \in SettingsChoices : SettingsSave(size[1], size[2])
    \/ WriteStep
    \/ RestartExec
    \/ RestartFail
    \/ Start

Spec == Init /\ [][Next]_vars

\* The scheduling of one instance: a handler that has started runs to its
\* end, and the thread restart_app has spawned runs (its spawn of the new
\* instance succeeds or fails).
SpecRestart ==
    /\ Init
    /\ [][Next]_vars
    /\ WF_vars(WriteStep)
    /\ WF_vars(RestartExec \/ RestartFail)

-----------------------------------------------------------------------------
(* save_buttons followed by read, on every list and every earlier file.     *)

\* The ordered name lists save_buttons is given.
Lists == UNION {[1..n -> Names] : n \in 0..MaxButtons}

\* e4docker.conf as an earlier run left it with the list earlier.
ConfOf(earlier) ==
    [k \in (DOMAIN InitialConf \ {Key("buttons", ButtonKey(1))})
            \cup {Key("buttons", ButtonKey(p)) : p \in 1..Len(earlier)} |->
        IF k[1] = "buttons" THEN earlier[k[2][2]]
        ELSE IF k = Key("e4docker", Word("number_of_buttons")) THEN Len(earlier)
        ELSE InitialConf[k]]

\* A caller is about to run set_number_of_buttons(len), save_buttons(list)
\* and restart_app, as delete and new_button do.
InitRoundTrip ==
    \E earlier \in Lists, list \in Lists :
        /\ conf = ConfOf(earlier)
        /\ files = InitialFiles
        /\ tmpfile = NoTmp
        /\ alive = TRUE
        /\ config = Read(ConfOf(earlier))
        /\ registry = CreateButtons(Read(ConfOf(earlier)), InitialFiles)
        /\ buttons_names = ButtonsNames(Read(ConfOf(earlier)), InitialFiles)
        /\ ui = "idle"
        /\ dlg = NoDlg
        /\ script = <<SetNumberOfButtons(Len(list))>> \o SaveButtons(list)
                        \o <<RestartItem>>
        /\ restart = FALSE
        /\ lastSpawn = NoSpawn
        /\ alert = NoAlert
        /\ op = [NoOp EXCEPT !.kind = "save_buttons", !.status = "running",
                             !.names = list, !.conf = ConfOf(earlier)]
        /\ dirty = TRUE
        /\ procs = {}
        /\ sys = StartedThreads(registry).sys
        /\ monitor = StartedThreads(registry).monitor
        /\ guards = StartedThreads(registry).guards
        /\ commands = StartedThreads(registry).commands
        /\ channel = StartedThreads(registry).channel
        /\ border = StartedThreads(registry).border
        /\ uithread = StartedThreads(registry).uithread
        /\ workers = StartedThreads(registry).workers
        /\ report = StartedThreads(registry).report

\* The new instance keeps the list it has read; the history record stays.
ReadBack ==
    /\ alive
    /\ restart
    /\ script = <<>>
    /\ config' = Read(conf)
    /\ registry' = CreateButtons(Read(conf), files)
    /\ buttons_names' = ButtonsNames(Read(conf), files)
    /\ restart' = FALSE
    /\ op' = [op EXCEPT !.status = "read"]
    /\ UNCHANGED <<conf, files, tmpfile, alive, ui, dlg, script, lastSpawn,
                   alert, dirty>>
    /\ UNCHANGED threads

NextRoundTrip ==
    \/ WriteStep
    \/ ReadBack

SpecRoundTrip == InitRoundTrip /\ [][NextRoundTrip]_vars

-----------------------------------------------------------------------------
(* The threads of one instance: the process monitor, the UI thread in the   *)
(* checker's loop and in the click callback, and the launch threads.        *)

\* Three buttons: generic, a (/usr/bin/foo -v) and b, whose file is missing
\* so that its command is empty.
ThreadNames == <<GENERIC, "a", "b">>

ThreadFiles ==
    [n \in {GENERIC, "a"} |->
        IF n = GENERIC THEN InitialGenericConf
        ELSE IniSet(IniSet(InitialGenericConf, BUTTON_BUTTON_SECTION,
                           Word("COMMAND"), "/usr/bin/foo"),
                    BUTTON_BUTTON_SECTION, Word("ARGUMENTS"), "-v")]

InitThreads ==
    /\ conf = ConfOf(ThreadNames)
    /\ files = ThreadFiles
    /\ tmpfile = NoTmp
    /\ alive = TRUE
    /\ config = Read(ConfOf(ThreadNames))
    /\ registry = CreateButtons(Read(ConfOf(ThreadNames)), ThreadFiles)
    /\ buttons_names = ButtonsNames(Read(ConfOf(ThreadNames)), ThreadFiles)
    /\ ui = "idle"
    /\ dlg = NoDlg
    /\ script = <<>>
    /\ restart = FALSE
    /\ lastSpawn = NoSpawn
    /\ alert = NoAlert
    /\ op = NoOp
    /\ dirty = FALSE
    /\ procs = {}
    /\ sys = StartedThreads(registry).sys
    /\ monitor = StartedThreads(registry).monitor
    /\ guards = StartedThreads(registry).guards
    /\ commands = StartedThreads(registry).commands
    /\ channel = StartedThreads(registry).channel
    /\ border = StartedThreads(registry).border
    /\ uithread = StartedThreads(registry).uithread
    /\ workers = StartedThreads(registry).workers
    /\ report = StartedThreads(registry).report

\* A process starts or exits beside the program.
ProcStart(process) ==
    /\ process \notin procs
    /\ procs' = procs \cup {process}
    /\ UNCHANGED <<sys, monitor, guards, commands, channel, border, uithread,
                   workers, report>>
    /\ UNCHANGED instance

ProcExit(process) ==
    /\ process \in procs
    /\ procs' = procs \ {process}
    /\ UNCHANGED <<sys, monitor, guards, commands, channel, border, uithread,
                   workers, report>>
    /\ UNCHANGED instance

\* The guards once the thread who has let go of all it holds; a thread that
\* panics poisons the Mutexes whose guards it drops while unwinding.
Released(g, who, panicking) ==
    [registry |-> IF g.registry = who THEN "free" ELSE g.registry,
     registry_poisoned |-> g.registry_poisoned \/ (panicking /\ g.registry = who),
     command |-> [i \in DOMAIN g.command |->
                    IF g.command[i] = who THEN "free" ELSE g.command[i]],
     command_poisoned |-> [i \in DOMAIN g.command |->
                    g.command_poisoned[i] \/ (panicking /\ g.command[i] = who)]]

\* Monitor: sys.refresh_processes(All, true).
MonitorRefresh ==
    /\ alive
    /\ monitor.pc = "refresh"
    /\ sys' = procs
    /\ monitor' = [monitor EXCEPT !.pc = "lock"]
    /\ UNCHANGED <<procs, guards, commands, channel, border, uithread, workers,
                   report>>
    /\ UNCHANGED instance

\* Monitor: buttons_for_thread.lock().unwrap().
MonitorLock ==
    /\ alive
    /\ monitor.pc = "lock"
    /\ guards.registry = "free"
    /\ IF guards.registry_poisoned
       THEN /\ monitor' = [monitor EXCEPT !.pc = "panicked"]
            /\ UNCHANGED guards
       ELSE /\ monitor' = [pc |-> "next", index |-> 0]
            /\ guards' = [guards EXCEPT !.registry = "monitor"]
    /\ UNCHANGED <<procs, sys, commands, channel, border, uithread, workers,
                   report>>
    /\ UNCHANGED instance

\* Monitor: the head of the for loop, button.command.lock().unwrap(); after
\* the last button, drop(buttons) and the sleep.
MonitorNext ==
    /\ alive
    /\ monitor.pc = "next"
    /\ IF monitor.index < Len(commands)
       THEN /\ guards.command[monitor.index + 1] = "free"
            /\ IF guards.command_poisoned[monitor.index + 1]
               THEN /\ monitor' = [monitor EXCEPT !.pc = "panicked"]
                    /\ guards' = Released(guards, "monitor", TRUE)
               ELSE /\ monitor' = [monitor EXCEPT !.pc = "check"]
                    /\ guards' = [guards EXCEPT
                                    !.command[monitor.index + 1] = "monitor"]
       ELSE /\ monitor' = [monitor EXCEPT !.pc = "sleep"]
            /\ guards' = Released(guards, "monitor", FALSE)
    /\ UNCHANGED <<procs, sys, commands, channel, border, uithread, workers,
                   report>>
    /\ UNCHANGED instance

\* Monitor: is_process_running(&sys, cmd.get()) and sender.send, the guard
\* cmd being dropped at the end of the loop body.
MonitorCheck ==
    /\ alive
    /\ monitor.pc = "check"
    /\ Len(channel) < MaxChannel
    /\ \E outcome \in IsProcessRunning(sys, commands[monitor.index + 1].cmd) :
        IF outcome = "panic"
        THEN /\ monitor' = [monitor EXCEPT !.pc = "panicked"]
             /\ guards' = Released(guards, "monitor", TRUE)
             /\ UNCHANGED <<channel, report>>
        ELSE /\ monitor' = [pc |-> "next", index |-> monitor.index + 1]
             /\ guards' = [guards EXCEPT !.command[monitor.index + 1] = "free"]
             /\ channel' = Append(channel, <<monitor.index, outcome = "true">>)
             /\ report' = [sent |-> TRUE,
                           index |-> monitor.index,
                           cmd |-> commands[monitor.index + 1].cmd,
                           snapshot |-> sys,
                           is_running |-> (outcome = "true")]
    /\ UNCHANGED <<procs, sys, commands, border, uithread, workers>>
    /\ UNCHANGED instance

\* Monitor: thread::sleep is over.
MonitorWake ==
    /\ alive
    /\ monitor.pc = "sleep"
    /\ monitor' = [monitor EXCEPT !.pc = "refresh"]
    /\ UNCHANGED <<procs, sys, guards, commands, channel, border, uithread,
                   workers, report>>
    /\ UNCHANGED instance

\* The UI thread panics: the process ends.
UIPanics ==
    /\ uithread' = [uithread EXCEPT !.pc = "panicked"]
    /\ alive' = FALSE
    /\ UNCHANGED <<conf, files, tmpfile, config, buttons_names, registry, ui, dlg,
                   script, restart, lastSpawn, alert, op, dirty>>

\* A receive that takes the newest message of the channel.
UIRecvNewest ==
    /\ alive
    /\ uithread.pc = "loop"
    /\ channel # <<>>
    /\ channel' = SubSeq(channel, 1, Len(channel) - 1)
    /\ uithread' = [uithread EXCEPT !.pc = "recv",
                                    !.index = channel[Len(channel)][1],
                                    !.is_running = channel[Len(channel)][2]]
    /\ UNCHANGED <<procs, sys, monitor, guards, commands, border, workers, report>>
    /\ UNCHANGED instance

\* UI thread: app.wait() returns and receiver.recv() yields a message.
UIRecv ==
    /\ alive
    /\ uithread.pc = "loop"
    /\ channel # <<>>
    /\ channel' = Tail(channel)
    /\ uithread' = [uithread EXCEPT !.pc = "recv",
                                    !.index = Head(channel)[1],
                                    !.is_running = Head(channel)[2]]
    /\ UNCHANGED <<procs, sys, monitor, guards, commands, border, workers, report>>
    /\ UNCHANGED instance

\* A set_active that stores and redraws whatever the indicator shows.
SetActiveAlways(is_active, active) == [is_active |-> active, redraw |-> TRUE]

\* BorderIndicator::set_active: the new is_active, and whether the frame is
\* recoloured and redrawn.
SetActive(is_active, active) ==
    IF active # is_active
    THEN [is_active |-> active, redraw |-> TRUE]
    ELSE [is_active |-> is_active, redraw |-> FALSE]

\* UI thread: buttons.lock().unwrap(), get_mut(index), set_active, and the
\* guard dropped at the end of the block.
UIApply ==
    /\ alive
    /\ uithread.pc = "recv"
    /\ guards.registry = "free"
    /\ IF guards.registry_poisoned
       THEN /\ UIPanics
            /\ UNCHANGED border
       ELSE /\ uithread' = [uithread EXCEPT !.pc = "loop"]
            /\ border' = [i \in DOMAIN border |->
                            IF i = uithread.index + 1
                            THEN SetActive(border[i], uithread.is_running).is_active
                            ELSE border[i]]
            /\ UNCHANGED instance
    /\ UNCHANGED <<procs, sys, monitor, guards, commands, channel, workers, report>>

\* Click callback: command_clone.lock().unwrap().
ClickLock(i) ==
    /\ alive
    /\ uithread.pc = "loop"
    /\ i \in 0..(Len(commands) - 1)
    /\ guards.command[i + 1] = "free"
    /\ IF guards.command_poisoned[i + 1]
       THEN /\ UIPanics
            /\ UNCHANGED guards
       ELSE /\ uithread' = [uithread EXCEPT !.pc = "click", !.index = i]
            /\ guards' = [guards EXCEPT !.command[i + 1] = "ui"]
            /\ UNCHANGED instance
    /\ UNCHANGED <<procs, sys, monitor, commands, channel, border, workers, report>>

\* An exec that starts the child and waits for it on the calling thread.
ClickExecInline ==
    /\ alive
    /\ uithread.pc = "click"
    /\ Len(workers) < MaxWorkers
    /\ workers' = Append(workers,
            [thread |-> "ui",
             state |-> "spawn",
             cmd |-> commands[uithread.index + 1].cmd,
             arguments |-> commands[uithread.index + 1].arguments,
             child |-> Exec(commands[uithread.index + 1].cmd,
                            commands[uithread.index + 1].arguments),
             returned |-> "Ok"])
    /\ uithread' = [uithread EXCEPT !.pc = "launched"]
    /\ UNCHANGED <<procs, sys, monitor, guards, commands, channel, border, report>>
    /\ UNCHANGED instance

\* Click callback: guard.exec().  exec clones cmd and arguments, spawns the
\* thread that will start the child, and returns Ok(()).
ClickExec ==
    /\ alive
    /\ uithread.pc = "click"
    /\ Len(workers) < MaxWorkers
    /\ workers' = Append(workers,
            [thread |-> "spawned",
             state |-> "spawn",
             cmd |-> commands[uithread.index + 1].cmd,
             arguments |-> commands[uithread.index + 1].arguments,
             child |-> Exec(commands[uithread.index + 1].cmd,
                            commands[uithread.index + 1].arguments),
             returned |-> "Ok"])
    /\ uithread' = [uithread EXCEPT !.pc = "launched"]
    /\ UNCHANGED <<procs, sys, monitor, guards, commands, channel, border, report>>
    /\ UNCHANGED instance

\* Click callback: drop(guard); the result is Ok and the callback returns.
ClickDrop ==
    /\ alive
    /\ uithread.pc = "launched"
    /\ guards' = Released(guards, "ui", FALSE)
    /\ uithread' = [uithread EXCEPT !.pc = "loop"]
    /\ UNCHANGED <<procs, sys, monitor, commands, channel, border, workers, report>>
    /\ UNCHANGED instance

\* A launch thread: Command::new(cmd)...spawn().  The OS starts the child or
\* refuses (always for an empty program); on Err the thread shows the alert.
WorkerSpawn(k, accepted) ==
    /\ alive
    /\ k \in 1..Len(workers)
    /\ workers[k].state = "spawn"
    /\ accepted => workers[k].cmd # <<>>
    /\ workers' = [workers EXCEPT ![k].state = IF accepted THEN "wait" ELSE "failed"]
    /\ alert' = IF accepted THEN alert ELSE "failed-to-execute-command"
    /\ UNCHANGED <<procs, sys, monitor, guards, commands, channel, border, uithread,
                   report>>
    /\ UNCHANGED <<conf, files, tmpfile, alive, config, buttons_names, registry, ui,
                   dlg, script, restart, lastSpawn, op, dirty>>

\* A launch thread ends: c.wait() returns, or the alert is closed.
WorkerEnd(k) ==
    /\ alive
    /\ k \in 1..Len(workers)
    /\ workers[k].state \in {"wait", "failed"}
    /\ workers' = [j \in 1..(Len(workers) - 1) |->
                    IF j < k THEN workers[j] ELSE workers[j + 1]]
    /\ alert' = NoAlert
    /\ UNCHANGED <<procs, sys, monitor, guards, commands, channel, border, uithread,
                   report>>
    /\ UNCHANGED <<conf, files, tmpfile, alive, config, buttons_names, registry, ui,
                   dlg, script, restart, lastSpawn, op, dirty>>

\* The command a caller of set_command passes.
SetCommandChoices == {<<Chars("foo"), "">>}

\* set_command is called on button i from the UI thread.
SetCommandCall(i, cmd, arguments) ==
    /\ alive
    /\ uithread.pc = "loop"
    /\ i \in 0..(Len(commands) - 1)
    /\ commands[i + 1] # [cmd |-> cmd, arguments |-> arguments]
    /\ uithread' = [uithread EXCEPT !.pc = "set", !.index = i,
                                    !.cmd = cmd, !.arguments = arguments]
    /\ UNCHANGED <<procs, sys, monitor, guards, commands, channel, border, workers,
                   report>>
    /\ UNCHANGED instance

\* E4Command::set.
Set(cmd, arguments) == [cmd |-> cmd, arguments |-> arguments]

\* set_command: self.command.lock().unwrap(), guard.set(..), drop(guard).
SetCommand ==
    /\ alive
    /\ uithread.pc = "set"
    /\ guards.command[uithread.index + 1] = "free"
    /\ IF guards.command_poisoned[uithread.index + 1]
       THEN /\ UIPanics
            /\ UNCHANGED commands
       ELSE /\ uithread' = [uithread EXCEPT !.pc = "loop"]
            /\ commands' = [commands EXCEPT
                              ![uithread.index + 1] = Set(uithread.cmd, uithread.arguments)]
            /\ UNCHANGED instance
    /\ UNCHANGED <<procs, sys, monitor, guards, channel, border, workers, report>>

\* set_command taken statement by statement.  A lock that takes no guard:
SetLockNoGuard ==
    /\ alive
    /\ uithread.pc = "set"
    /\ uithread' = [uithread EXCEPT !.pc = "set_locked"]
    /\ UNCHANGED <<procs, sys, monitor, guards, commands, channel, border, workers,
                   report>>
    /\ UNCHANGED instance

\* set_command: let mut guard = self.command.lock().unwrap().
SetLock ==
    /\ alive
    /\ uithread.pc = "set"
    /\ guards.command[uithread.index + 1] = "free"
    /\ IF guards.command_poisoned[uithread.index + 1]
       THEN /\ UIPanics
            /\ UNCHANGED guards
       ELSE /\ uithread' = [uithread EXCEPT !.pc = "set_locked"]
            /\ guards' = [guards EXCEPT !.command[uithread.index + 1] = "ui"]
            /\ UNCHANGED instance
    /\ UNCHANGED <<procs, sys, monitor, commands, channel, border, workers, report>>

\* E4Command::set: self.cmd = cmd.
SetCmd ==
    /\ alive
    /\ uithread.pc = "set_locked"
    /\ commands' = [commands EXCEPT ![uithread.index + 1].cmd = uithread.cmd]
    /\ uithread' = [uithread EXCEPT !.pc = "set_cmd"]
    /\ UNCHANGED <<procs, sys, monitor, guards, channel, border, workers, report>>
    /\ UNCHANGED instance

\* E4Command::set: self.arguments = arguments.
SetArguments ==
    /\ alive
    /\ uithread.pc = "set_cmd"
    /\ commands' = [commands EXCEPT
                      ![uithread.index + 1].arguments = uithread.arguments]
    /\ uithread' = [uithread EXCEPT !.pc = "set_arguments"]
    /\ UNCHANGED <<procs, sys, monitor, guards, channel, border, workers, report>>
    /\ UNCHANGED instance

\* set_command: drop(guard).
SetDrop ==
    /\ alive
    /\ uithread.pc = "set_arguments"
    /\ guards' = Released(guards, "ui", FALSE)
    /\ uithread' = [uithread EXCEPT !.pc = "loop"]
    /\ UNCHANGED <<procs, sys, monitor, commands, channel, border, workers, report>>
    /\ UNCHANGED instance

\* set_command statement by statement, beside its readers: the monitor's
\* cycle and the launches.
NextSet ==
    \/ MonitorRefresh
    \/ MonitorLock
    \/ MonitorNext
    \/ MonitorCheck
    \/ MonitorWake
    \/ UIRecv
    \/ UIApply
    \/ \E i \in 0..(MaxButtons - 1) : ClickLock(i)
    \/ ClickExec
    \/ ClickDrop
    \/ \E k \in 1..MaxWorkers : WorkerSpawn(k, TRUE)
    \/ \E k \in 1..MaxWorkers : WorkerEnd(k)
    \/ \E i \in 0..(MaxButtons - 1), c \in SetCommandChoices :
            SetCommandCall(i, c[1], c[2])
    \/ SetLock
    \/ SetCmd
    \/ SetArguments
    \/ SetDrop

SpecSet == InitThreads /\ [][NextSet]_vars

\* Popup menu, "edit" on button i: let command = self.command.lock().unwrap(),
\* the guard being held while the dialog's fields are filled.
EditLock(i) ==
    /\ alive
    /\ uithread.pc = "loop"
    /\ i \in 0..(Len(commands) - 1)
    /\ guards.command[i + 1] = "free"
    /\ IF guards.command_poisoned[i + 1]
       THEN /\ UIPanics
            /\ UNCHANGED guards
       ELSE /\ uithread' = [uithread EXCEPT !.pc = "edit", !.index = i]
            /\ guards' = [guards EXCEPT !.command[i + 1] = "ui"]
            /\ UNCHANGED instance
    /\ UNCHANGED <<procs, sys, monitor, commands, channel, border, workers, report>>

\* edit: the fields are filled and the guard dropped (drop(command)), then
\* the window is shown.  When the button's image cannot be read the thread
\* panics with the guard held.
EditDrop(image_read) ==
    /\ alive
    /\ uithread.pc = "edit"
    /\ IF image_read
       THEN /\ uithread' = [uithread EXCEPT !.pc = "modal"]
            /\ guards' = Released(guards, "ui", FALSE)
            /\ UNCHANGED instance
       ELSE /\ UIPanics
            /\ guards' = Released(guards, "ui", TRUE)
    /\ UNCHANGED <<procs, sys, monitor, commands, channel, border, workers, report>>

\* edit: the window is hidden and the nested loop
\* while ui.window.shown() { app::wait(); } ends; the UI thread is back in
\* the checker's loop.
EditEnd ==
    /\ alive
    /\ uithread.pc = "modal"
    /\ uithread' = [uithread EXCEPT !.pc = "loop"]
    /\ UNCHANGED <<procs, sys, monitor, guards, commands, channel, border, workers,
                   report>>
    /\ UNCHANGED instance

\* The events the channel may hold: an index of the registry or the first
\* index beyond it, running or not.
EventChoices == (0..MaxButtons) \X BOOLEAN

\* The UI loop about to receive some events, with the indicators in some state.
InitApply ==
    \E shown \in [1..Len(ThreadNames) -> BOOLEAN],
       events \in UNION {[1..n -> EventChoices] : n \in 0..2} :
        /\ conf = ConfOf(ThreadNames)
        /\ files = ThreadFiles
        /\ tmpfile = NoTmp
        /\ alive = TRUE
        /\ config = Read(ConfOf(ThreadNames))
        /\ registry = CreateButtons(Read(ConfOf(ThreadNames)), ThreadFiles)
        /\ buttons_names = ButtonsNames(Read(ConfOf(ThreadNames)), ThreadFiles)
        /\ ui = "idle"
        /\ dlg = NoDlg
        /\ script = <<>>
        /\ restart = FALSE
        /\ lastSpawn = NoSpawn
        /\ alert = NoAlert
        /\ op = NoOp
        /\ dirty = FALSE
        /\ procs = {}
        /\ sys = StartedThreads(registry).sys
        /\ monitor = StartedThreads(registry).monitor
        /\ guards = StartedThreads(registry).guards
        /\ commands = StartedThreads(registry).commands
        /\ channel = events
        /\ border = shown
        /\ uithread = StartedThreads(registry).uithread
        /\ workers = StartedThreads(registry).workers
        /\ report = StartedThreads(registry).report

\* The UI loop alone: receive, apply.
NextApply ==
    \/ UIRecv
    \/ UIApply

SpecApply == InitApply /\ [][NextApply]_vars

\* The monitor and the UI thread's receive loop, among the processes that
\* start and exit.
NextMonitor ==
    \/ \E process \in ProcChoices : ProcStart(process)
    \/ \E process \in ProcChoices : ProcExit(process)
    \/ MonitorRefresh
    \/ MonitorLock
    \/ MonitorNext
    \/ MonitorCheck
    \/ MonitorWake
    \/ UIRecv
    \/ UIApply

SpecMonitor == InitThreads /\ [][NextMonitor]_vars

\* The process whose name is not valid UTF-8.
BadProcs == {process \in ProcChoices : ~process.name.utf8}

\* Clicks, launch threads and set_command, beside the monitor and the
\* receive loop.
NextLaunch ==
    \/ \E process \in BadProcs : ProcStart(process)
    \/ \E process \in BadProcs : ProcExit(process)
    \/ MonitorRefresh
    \/ MonitorLock
    \/ MonitorNext
    \/ MonitorCheck
    \/ MonitorWake
    \/ UIRecv
    \/ UIApply
    \/ \E i \in 0..(MaxButtons - 1) : ClickLock(i)
    \/ ClickExec
    \/ ClickDrop
    \/ \E k \in 1..MaxWorkers, accepted \in BOOLEAN : WorkerSpawn(k, accepted)
    \/ \E k \in 1..MaxWorkers : WorkerEnd(k)
    \/ \E i \in 0..(MaxButtons - 1), c \in SetCommandChoices :
            SetCommandCall(i, c[1], c[2])
    \/ SetCommand

SpecLaunch == InitThreads /\ [][NextLaunch]_vars

\* Every taker of a guard: the monitor's cycle, the receive loop, the click
\* callback, set_command and the edit dialog, among processes whose names
\* are not valid UTF-8.
NextGuards ==
    \/ \E process \in BadProcs : ProcStart(process)
    \/ \E process \in BadProcs : ProcExit(process)
    \/ MonitorRefresh
    \/ MonitorLock
    \/ MonitorNext
    \/ MonitorCheck
    \/ MonitorWake
    \/ UIRecv
    \/ UIApply
    \/ \E i \in 0..(MaxButtons - 1) : ClickLock(i)
    \/ ClickExec
    \/ ClickDrop
    \/ \E k \in 1..MaxWorkers : WorkerSpawn(k, TRUE)
    \/ \E k \in 1..MaxWorkers : WorkerEnd(k)
    \/ \E i \in 0..(MaxButtons - 1), c \in SetCommandChoices :
            SetCommandCall(i, c[1], c[2])
    \/ SetCommand
    \/ \E i \in 0..(MaxButtons - 1) : EditLock(i)
    \/ \E image_read \in BOOLEAN : EditDrop(image_read)
    \/ EditEnd

SpecGuards == InitThreads /\ [][NextGuards]_vars

\* The button files a start may find: each of COMMAND, ARGUMENTS and ICON
\* present or absent.
ButtonFileChoices ==
    {[k \in present |->
        CASE k = Key("button", Word("command")) -> "/usr/bin/foo"
          [] k = Key("button", Word("arguments")) -> "-v"
          [] OTHER -> "foo.png"] :
     present \in SUBSET {Key("button", Word("command")),
                         Key("button", Word("arguments")),
                         Key("button", Word("icon"))}}

\* The configuration directory a start may find: for each name, no file
\* that loads, or one of the files above.
FilesChoices == UNION {[some -> ButtonFileChoices] : some \in SUBSET Names}

\* The program is not running; e4docker.conf lists some buttons and the
\* directory holds some button files.
InitStopped ==
    \E list \in Lists, fs \in FilesChoices :
        /\ conf = ConfOf(list)
        /\ files = fs
        /\ tmpfile = NoTmp
        /\ alive = FALSE
        /\ config = Read(EmptyIni)
        /\ registry = <<>>
        /\ buttons_names = <<>>
        /\ ui = "idle"
        /\ dlg = NoDlg
        /\ script = <<>>
        /\ restart = FALSE
        /\ lastSpawn = NoSpawn
        /\ alert = NoAlert
        /\ op = NoOp
        /\ dirty = FALSE
        /\ procs = {}
        /\ sys = StartedThreads(registry).sys
        /\ monitor = StartedThreads(registry).monitor
        /\ guards = StartedThreads(registry).guards
        /\ commands = StartedThreads(registry).commands
        /\ channel = StartedThreads(registry).channel
        /\ border = StartedThreads(registry).border
        /\ uithread = StartedThreads(registry).uithread
        /\ workers = StartedThreads(registry).workers
        /\ report = StartedThreads(registry).report

\* The start of the program on such a directory.
NextStart == Start

SpecStart == InitStopped /\ [][NextStart]_vars

\* The positions a drag of the window reports: event_x_root() - x and
\* event_y_root() - y.
DragChoices == {<<100, 200>>, <<101, 200>>}

\* Drag handler: set_value of x, then set_value of y.
DragScript(px, py) ==
    <<SetValueItem(E4DOCKER_DOCKER_SECTION, Word("x"), px),
      SetValueItem(E4DOCKER_DOCKER_SECTION, Word("y"), py)>>

\* A drag handler that starts whatever the UI thread is in the middle of.
DragInterleaved(px, py) ==
    /\ alive
    /\ ui = "idle"
    /\ script' = DragScript(px, py)
    /\ op' = Begin("drag", "running", "", px, py)
    /\ lastSpawn' = NoSpawn
    /\ alert' = NoAlert
    /\ UNCHANGED <<conf, files, tmpfile, alive, config, buttons_names, registry,
                   ui, dlg, restart>>
    /\ UNCHANGED dirty
    /\ UNCHANGED threads

\* Drag event on the window: the handler runs on the UI thread, outside
\* every other handler and (the dialogs being modal) outside every dialog.
\* The position keys are not among the fields the instance has read, so the
\* instance's state is as fresh after the drag as before.
Drag(px, py) ==
    /\ UIIdle
    /\ script' = DragScript(px, py)
    /\ op' = Begin("drag", "running", "", px, py)
    /\ lastSpawn' = NoSpawn
    /\ alert' = NoAlert
    /\ UNCHANGED <<conf, files, tmpfile, alive, config, buttons_names, registry,
                   ui, dlg, restart>>
    /\ UNCHANGED dirty
    /\ UNCHANGED threads

\* Menu actions, the new-button dialog, the settings and the drag handler:
\* the handlers that rewrite e4docker.conf.
NextDrag ==
    \/ ~dirty /\ \E i \in 0..MaxButtons : MoveLeft(i)
    \/ ~dirty /\ \E i \in 0..MaxButtons : MoveRight(i)
    \/ ~dirty /\ \E i \in 0..MaxButtons : Delete(i)
    \/ ~dirty /\ NewOpen
    \/ \E name \in Names, input \in InputChoices : NewSave(name, input[1], input[2])
    \/ DialogClose
    \/ ~dirty /\ \E size \in SettingsChoices : SettingsSave(size[1], size[2])
    \/ \E pos \in DragChoices : Drag(pos[1], pos[2])
    \/ WriteStep
    \/ RestartExec

SpecDrag == Init /\ [][NextDrag]_vars

\* The (section, key) pairs a caller asks get_value for.
GetChoices ==
    {<<E4DOCKER_DOCKER_SECTION, Word("NUMBER_OF_BUTTONS")>>,
     <<E4DOCKER_DOCKER_SECTION, Word("x")>>,
     <<E4DOCKER_BUTTON_SECTION, ButtonKey(2)>>}

\* The last thing the UI thread did was a get_value for this section and key.
GetAgain(section, key) ==
    op.kind = "get_value" /\ op.section = section /\ op.key = key

\* A get_value that takes the key out of the file it has read.
GetValueTaking(section, key) ==
    /\ UIIdle
    /\ op' = [kind |-> "get_value", status |-> "done", section |-> section,
              key |-> key,
              result |-> IF IniHas(conf, section, key)
                         THEN Some(IniGet(conf, section, key)) ELSE None,
              calls |-> IF GetAgain(section, key) THEN 2 ELSE 1,
              previous |-> IF GetAgain(section, key) THEN op.result ELSE None]
    /\ conf' = IniRemoveKey(conf, section, key)
    /\ lastSpawn' = NoSpawn
    /\ alert' = NoAlert
    /\ UNCHANGED <<files, tmpfile, alive, config, buttons_names, registry, ui,
                   dlg, script, restart>>
    /\ UNCHANGED dirty
    /\ UNCHANGED threads

\* get_value(section, key): a fresh Ini loads e4docker.conf and
\* config.get(section, key) is returned; the history keeps the call and
\* its result.
GetValue(section, key) ==
    /\ UIIdle
    /\ op' = [kind |-> "get_value", status |-> "done", section |-> section,
              key |-> key,
              result |-> IF IniHas(conf, section, key)
                         THEN Some(IniGet(conf, section, key)) ELSE None,
              calls |-> IF GetAgain(section, key) THEN 2 ELSE 1,
              previous |-> IF GetAgain(section, key) THEN op.result ELSE None]
    /\ lastSpawn' = NoSpawn
    /\ alert' = NoAlert
    /\ UNCHANGED <<conf, files, tmpfile, alive, config, buttons_names, registry, ui,
                   dlg, script, restart>>
    /\ UNCHANGED dirty
    /\ UNCHANGED threads

\* get_value calls between the handlers that rewrite e4docker.conf.
NextGet ==
    \/ ~dirty /\ \E i \in 0..MaxButtons : MoveLeft(i)
    \/ ~dirty /\ \E i \in 0..MaxButtons : Delete(i)
    \/ ~dirty /\ NewOpen
    \/ \E name \in Names, input \in InputChoices : NewSave(name, input[1], input[2])
    \/ \E pos \in DragChoices : Drag(pos[1], pos[2])
    \/ \E c \in GetChoices : GetValue(c[1], c[2])
    \/ WriteStep
    \/ RestartExec

SpecGet == Init /\ [][NextGet]_vars

\* The writes of a handler that go to a file through Ini::write or
\* std::fs::copy.
FileWrites == {"set_value", "remove_key", "save_tmp", "copy_tmp"}

\* The file write the running handler is at fails (disk full, directory or
\* file not writable): config.write(..).expect(..) in set_value and
\* remove_key, and the Err => panic!(..) arms of the save callbacks, panic on
\* the UI thread.  The file is left as it was.
WriteFail ==
    /\ alive
    /\ script # <<>>
    /\ Head(script).op \in FileWrites
    /\ script' = <<>>
    /\ op' = [op EXCEPT !.status = "write_failed"]
    /\ alive' = FALSE
    /\ restart' = FALSE
    /\ alert' = NoAlert
    /\ lastSpawn' = NoSpawn
    /\ UNCHANGED <<conf, files, tmpfile, config, buttons_names, registry, ui, dlg>>
    /\ UNCHANGED dirty
    /\ UNCHANGED threads

\* The instance with file writes that can fail, followed up to the end of
\* its process (a process that has ended is not started again here).
NextWriteFail ==
    \/ ~dirty /\ \E i \in 0..MaxButtons : MoveLeft(i)
    \/ ~dirty /\ \E i \in 0..MaxButtons : MoveRight(i)
    \/ ~dirty /\ \E i \in 0..MaxButtons : Delete(i)
    \/ ~dirty /\ \E i \in 0..MaxButtons : EditOpen(i)
    \/ \E name \in Names, input \in InputChoices : EditSave(name, input[1], input[2])
    \/ ~dirty /\ NewOpen
    \/ \E name \in Names, input \in InputChoices : NewSave(name, input[1], input[2])
    \/ DialogClose
    \/ ~dirty /\ \E size \in SettingsChoices : SettingsSave(size[1], size[2])
    \/ WriteStep
    \/ WriteFail
    \/ RestartExec

SpecWriteFail == Init /\ [][NextWriteFail]_vars

\* set_value or remove_key whose config.load(&config_file) returns Err (the
\* file cannot be read at that moment, or a line of it does not parse): the
\* Err arm shows the alert, and the call goes on with the Ini it has, which
\* is empty: the key is set in it (or removed from it) and the file written.
LoadFail ==
    /\ alive
    /\ script # <<>>
    /\ Head(script).op \in {"set_value", "remove_key"}
    /\ conf' = IF Head(script).op = "set_value"
               THEN SetValue(EmptyIni, Head(script).section, Head(script).key,
                             Head(script).value)
               ELSE RemoveKey(EmptyIni, Head(script).section, Head(script).key)
    /\ alert' = "cannot-load-e4docker-conf"
    /\ script' = Tail(script)
    /\ op' = [op EXCEPT !.status = After(Tail(script))]
    /\ lastSpawn' = NoSpawn
    /\ UNCHANGED <<files, tmpfile, alive, config, buttons_names, registry, ui, dlg,
                   restart>>
    /\ UNCHANGED dirty
    /\ UNCHANGED threads

\* The handlers that rewrite e4docker.conf, each load of the file succeeding
\* or failing.
NextLoadFail ==
    \/ ~dirty /\ \E i \in 0..MaxButtons : MoveLeft(i)
    \/ ~dirty /\ \E i \in 0..MaxButtons : Delete(i)
    \/ ~dirty /\ NewOpen
    \/ \E name \in Names, input \in InputChoices : NewSave(name, input[1], input[2])
    \/ WriteStep
    \/ LoadFail
    \/ RestartExec

SpecLoadFail == Init /\ [][NextLoadFail]_vars

\* The popup handlers of an instance with three buttons, beside the thread
\* restart_app has spawned: until that thread has started the new instance
\* and called exit, the UI thread of the old instance goes on taking events.
NextStale ==
    \/ \E i \in 0..MaxButtons : MoveLeft(i)
    \/ \E i \in 0..MaxButtons : MoveRight(i)
    \/ \E i \in 0..MaxButtons : Delete(i)
    \/ WriteStep
    \/ RestartExec

SpecStale == InitThreads /\ [][NextStale]_vars

\* The processes whose names are valid UTF-8.
GoodProcs == ProcChoices \ BadProcs

\* The monitor and the receive loop of an instance with one button, the user
\* opening the edit dialog when no event is waiting and closing it when they
\* like.  While the dialog's nested loop runs, the wake-ups of the monitor's
\* sends end in that loop, which receives nothing.
NextBacklog ==
    \/ \E process \in GoodProcs : ProcStart(process)
    \/ \E process \in GoodProcs : ProcExit(process)
    \/ MonitorRefresh
    \/ MonitorLock
    \/ MonitorNext
    \/ MonitorCheck
    \/ MonitorWake
    \/ UIRecv
    \/ UIApply
    \/ channel = <<>> /\ \E i \in 0..(MaxButtons - 1) : EditLock(i)
    \/ EditDrop(TRUE)
    \/ EditEnd

SpecBacklog == Init /\ [][NextBacklog]_vars

-----------------------------------------------------------------------------
(* Properties.                                                              *)

\* The ordinals n whose key button{n} is present in the [buttons] section.
Ordinals(ini) ==
    {k[2][2] : k \in {x \in DOMAIN ini : x[1] = "buttons" /\ x[2][1] = "button"}}

\* NUMBER_OF_BUTTONS as persisted (0 when the key is absent).
PersistedNumber(ini) == GetOr(ini, "e4docker", <<"number_of_buttons", -1>>, 0)

\* The button list a reload of the persisted file yields.
PersistedList(ini) == Read(ini).buttons

Distinct(list) == \A p, q \in 1..Len(list) : p # q => list[p] # list[q]

Contains(list, name) == \E p \in 1..Len(list) : list[p] = name

\* No handler is in the middle of its file writes.
Quiescent == script = <<>>

(* C1: in every persisted state of e4docker.conf, the states between the   *)
(* single rewrites of a handler included, NUMBER_OF_BUTTONS equals the     *)
(* number of ordinal keys present, which are exactly button1..buttonN.     *)
C1_CountMatchesKeys == Ordinals(conf) = 1..PersistedNumber(conf)

(* C2: a launch starts the configured executable with the stored argument  *)
(* as exactly one argument token when it is non-empty, and with no         *)
(* argument when it is empty.                                              *)
C2_LaunchPassesArgument ==
    lastSpawn.launched =>
        /\ lastSpawn.child.program = lastSpawn.cmd
        /\ lastSpawn.arguments # "" => lastSpawn.child.args = <<lastSpawn.arguments>>
        /\ lastSpawn.arguments = "" => lastSpawn.child.args = <<>>

(* C3: after any sequence of new-button, edit, delete and swap operations, *)
(* each followed by its reload, the names of the persisted list, and of    *)
(* the registry built from it, are pairwise distinct.                      *)
C3_NamesDistinct ==
    Quiescent =>
        /\ Distinct(PersistedList(conf))
        /\ \A p, q \in 1..Len(registry) : p # q => registry[p].name # registry[q].name

(* C4: the persisted list, which contains "generic" at the start, contains *)
(* it after any sequence of delete, edit, new-button and swap operations.  *)
C4_GenericStays == Quiescent => Contains(PersistedList(conf), GENERIC)

(* C5: delete on the button named "generic", and an edit confirmed with    *)
(* the name "generic", surface a rejection and leave the persisted list,   *)
(* NUMBER_OF_BUTTONS and all files unchanged, and trigger no restart.      *)
C5_Rejects(kind) ==
    /\ op.status = "rejected"
    /\ alert = (IF kind = "delete" THEN "cannot-delete-the-generic-button"
                ELSE "cannot-modify-the-generic-button")
    /\ conf = op.conf
    /\ files = op.files
    /\ tmpfile = op.tmp
    /\ PersistedList(conf) = PersistedList(op.conf)
    /\ PersistedNumber(conf) = PersistedNumber(op.conf)
    /\ script = <<>>
    /\ ~restart
    /\ alive

C5_SentinelProtection ==
    /\ (op.kind = "delete" /\ op.name = GENERIC) => C5_Rejects("delete")
    /\ (op.kind = "edit" /\ op.status # "dialog" /\ op.newname = GENERIC)
            => C5_Rejects("edit")

C5_Witness ==
    /\ op.kind = "edit"
    /\ op.status = "rejected"
    /\ op.newname = GENERIC
    /\ op.name = "a"
    /\ Len(PersistedList(conf)) = MaxButtons

(* C6: for a persisted list of N distinct names at ordinals 1..N and a     *)
(* non-generic name at position k, delete leaves button1..button(N-1)      *)
(* equal to the old names without the k-th, in their old order, with no    *)
(* gap and no leftover key buttonN, and NUMBER_OF_BUTTONS = N-1.           *)
C6_Case ==
    /\ op.kind = "delete"
    /\ op.status = "done"
    /\ op.name # GENERIC
    /\ Distinct(PersistedList(op.conf))
    /\ Ordinals(op.conf) = 1..PersistedNumber(op.conf)

C7_Case ==
    /\ op.kind = "new"
    /\ op.status = "done"
    /\ Ordinals(op.conf) = 1..PersistedNumber(op.conf)

C8_Case ==
    /\ op.kind = "swap"
    /\ op.status = "done"
    /\ op.i \in 0..(Len(op.names) - 1)
    /\ op.j \in 0..(Len(op.names) - 1)

C10_WindowSize ==
    LET n == Len(config.buttons)
    IN  /\ config.window_width = n * config.icon_width
                                    + n * config.margin_between_buttons
                                    + 2 * config.frame_margin
        /\ config.window_height = config.icon_height + 4 * config.frame_margin

C10_Witness ==
    /\ alive
    /\ dirty
    /\ Len(config.buttons) = MaxButtons
    /\ config.icon_width # DefaultIconWidth
    /\ config.window_width = MaxButtons * config.icon_width
                                + MaxButtons * DefaultMarginBetweenButtons
                                + 2 * DefaultFrameMargin

(* C9: for every ordered name list L, save_buttons(L), the caller having   *)
(* set NUMBER_OF_BUTTONS to the length of L beforehand, followed by read   *)
(* yields a button list equal to L, entry by entry and in the same order.  *)
C9_Case == op.kind = "save_buttons" /\ op.status = "read"

C11_RegistryFollowsConfig ==
    alive =>
        /\ Len(registry) = Len(config.buttons)
        /\ \A i \in 1..Len(config.buttons) : registry[i].name = config.buttons[i]
        /\ (op.kind \in {"swap", "delete", "edit", "new"} /\ op.status # "dialog")
                => /\ Len(registry) = Len(PersistedList(op.conf))
                   /\ \A i \in 1..Len(registry) :
                          registry[i].name = PersistedList(op.conf)[i]

C11_Witness ==
    /\ alive
    /\ op.kind = "swap"
    /\ op.status = "done"
    /\ Len(registry) = MaxButtons
    /\ buttons_names # op.names
    /\ PersistedList(conf) # config.buttons

(* C12: every persisted structural change (a completed delete of a         *)
(* non-generic button, a confirmed new button, a confirmed edit, a swap)   *)
(* is followed by a restart: the instance never runs on with its          *)
(* pre-change state, that is, it is never alive after such a change with   *)
(* no write left to do and no restart under way.                           *)
C12_Changed ==
    /\ alive
    /\ dirty
    /\ op.kind \in {"delete", "new", "edit", "swap"}
    /\ op.status = "done"

C12_NoStaleInstance ==
    ~(C12_Changed /\ script = <<>> /\ ~restart)

(* C13: every call of restart_app starts a new instance and then ends the  *)
(* current process; no call leaves the current instance running.           *)
C13_RestartReplacesInstance ==
    [][(alive /\ restart /\ ~restart') =>
            /\ ~dirty'
            /\ op' = NoOp
            /\ config' = Read(conf)
            /\ registry' = CreateButtons(Read(conf), files)]_vars

C15_MonitorNeverEnds == alive => monitor.pc # "panicked"

\* The file-name component of a path and the substring relation, stated
\* without the scanning code: the longest suffix free of separators, and
\* equality with some slice of the text.
C16_FileNameOf(path) ==
    LET after(k) == SubSeq(path, k + 1, Len(path))
    IN  CHOOSE name \in {after(k) : k \in 0..Len(path)} :
            /\ \A c \in 1..Len(name) : name[c] # "/"
            /\ \A k \in 0..Len(path) :
                    (\A c \in 1..Len(after(k)) : after(k)[c] # "/")
                        => Len(after(k)) <= Len(name)

C16_Occurs(needle, text) ==
    \E from \in 1..Len(text), to \in 1..Len(text) : SubSeq(text, from, to) = needle

C16_Matches(process, name) ==
    \/ C16_Occurs(name, process.name.bytes)
    \/ \E e \in 1..Len(process.cmd) : C16_Occurs(name, process.cmd[e].bytes)

\* The monitor is about to look a button up whose executable has a
\* file-name component.
C16_Turn ==
    /\ alive
    /\ monitor.pc = "check"
    /\ C16_FileNameOf(commands[monitor.index + 1].cmd) # <<>>

(* C16: in each cycle the monitor reports a button as running if and only  *)
(* if, in that cycle's snapshot, the name of some process or an element of *)
(* its command line contains the file-name component of the button's       *)
(* executable: every turn of a button ends in a report of its index with   *)
(* exactly that value.                                                     *)
C16_EveryTurnReports ==
    [][(C16_Turn /\ monitor' # monitor) =>
            /\ report'.sent
            /\ report'.index = monitor.index
            /\ report'.snapshot = sys
            /\ channel' = Append(channel, <<monitor.index, report'.is_running>>)
            /\ report'.is_running <=>
                    \E process \in sys :
                        C16_Matches(process,
                            C16_FileNameOf(commands[monitor.index + 1].cmd))]_vars

\* The thread holds the registry guard or the guard of some command.
C17_Holds(who) ==
    \/ guards.registry = who
    \/ \E i \in DOMAIN guards.command : guards.command[i] = who

(* C17: no thread holds the registry guard or a command guard while a      *)
(* child process is spawned or waited for, or while the process table is   *)
(* scanned (the snapshot refreshed and its processes gone through for a    *)
(* match).                                                                 *)
C17_NoGuardAcrossScanOrSpawn ==
    /\ monitor.pc \in {"refresh", "check"} => ~C17_Holds("monitor")
    /\ \A k \in 1..Len(workers) : ~C17_Holds(workers[k].thread)

(* C18: set_command does not deadlock when called while a launch is in     *)
(* flight: issued at any point of a launch, it acquires the guard and      *)
(* completes.                                                              *)
C18_SetCommandCompletes ==
    [][(uithread.pc = "set" /\ workers # <<>> /\ uithread' # uithread) =>
            /\ uithread'.pc = "loop"
            /\ commands'[uithread.index + 1]
                    = [cmd |-> uithread.cmd, arguments |-> uithread.arguments]]_vars

\* The children whose spawn or exit is still awaited.
C19_Pending == {k \in 1..Len(workers) : workers[k].state \in {"spawn", "wait"}}

(* C19: launch returns to the UI thread without waiting for the child to   *)
(* be spawned or to exit: exec hands back control with the child not yet   *)
(* spawned, the spawn of and the wait for every child are steps of a       *)
(* thread of their own that leave the UI thread where it is, and the UI    *)
(* thread's return from the callback depends on no child.                  *)
C19_LaunchDoesNotWait ==
    /\ [](\A k \in 1..Len(workers) : workers[k].thread = "spawned")
    /\ []((alive /\ uithread.pc = "launched") => ENABLED ClickDrop)
    /\ [][(uithread.pc = "click" /\ uithread' # uithread) =>
                /\ uithread'.pc = "launched"
                /\ workers' = Append(workers, workers'[Len(workers')])
                /\ workers'[Len(workers')].state = "spawn"]_vars
    /\ [][(\E k \in 1..Len(workers) :
                \/ k > Len(workers')
                \/ workers'[k].state # workers[k].state) => uithread' = uithread]_vars

C19_Witness ==
    /\ uithread.pc = "recv"
    /\ Cardinality(C19_Pending) >= 2
    /\ \E k \in C19_Pending : workers[k].state = "wait"
    /\ \E k \in C19_Pending : workers[k].state = "spawn"

(* C20: whenever the OS refuses to spawn the executable (missing file,     *)
(* permission denied, empty executable), launch returns an error result to *)
(* its caller, and the application keeps running.                          *)
C20_RefusedSpawnIsReturned ==
    \A k \in 1..Len(workers) :
        workers[k].state = "failed" => (workers[k].returned = "Err" /\ alive)

(* C21: when a write of the app config file or of a button config file     *)
(* fails during set_value, remove_key, save_buttons, edit save or          *)
(* new-button save, the operation is aborted with a message to the user    *)
(* and the UI thread does not panic: the application is still running      *)
(* after the failed write.                                                 *)
C21_FailedWriteIsSurvived ==
    op.status = "write_failed" => (alive /\ alert # NoAlert)

\* The running handler is at a set_value call.
C22_Case == alive /\ script # <<>> /\ Head(script).op = "set_value"

C23_OnlySet(before, after, place, value) ==
    /\ place \in DOMAIN after
    /\ after[place] = value
    /\ DOMAIN after \ {place} = DOMAIN before \ {place}
    /\ \A k \in DOMAIN before \ {place} : after[k] = before[k]

\* The place is absent and every other place is as in the store before.
C23_OnlyRemoved(before, after, place) ==
    /\ place \notin DOMAIN after
    /\ DOMAIN after = DOMAIN before \ {place}
    /\ \A k \in DOMAIN after : after[k] = before[k]

C24_BeforeCopy ==
    /\ op.kind = "edit"
    /\ \/ op.status \in {"dialog", "rejected"}
       \/ \E p \in 1..Len(script) : script[p].op = "copy_tmp"

(* C24: from the opening of the edit dialog until the final copy of the    *)
(* temporary file over the button's config file, neither the button's      *)
(* config file nor the app config file is modified, so that an edit        *)
(* interrupted before the copy leaves both exactly as they were.           *)
C24_EditStagesUntilCopy ==
    C24_BeforeCopy => (conf = op.conf /\ files = op.files)

\* The button's file is there and holds the key.
C25_Present(name, key) ==
    /\ name \in DOMAIN files
    /\ <<"button", <<key, -1>>>> \in DOMAIN files[name]

\* A freshly loaded instance: no handler of it has written a file, so the
\* files are the ones its buttons were read from.
C25_Fresh == alive /\ ~dirty

(* C25: read_config always yields a button configuration: each of COMMAND, *)
(* ARGUMENTS and ICON that is absent, also when the button's file cannot   *)
(* be loaded at all, yields the empty string, the empty string and the     *)
(* generic icon path, and every button of the list is still created.       *)
C25_DefaultsForAbsentKeys ==
    C25_Fresh =>
        /\ Len(registry) = Len(config.buttons)
        /\ \A i \in 1..Len(registry) :
            LET name == config.buttons[i]
            IN  /\ registry[i].name = name
                /\ ~C25_Present(name, "command") => registry[i].cmd = ""
                /\ ~C25_Present(name, "arguments") => registry[i].arguments = ""
                /\ ~C25_Present(name, "icon") => registry[i].icon = "assets/generic.png"
                /\ C25_Present(name, "command") =>
                        registry[i].cmd = files[name][<<"button", <<"command", -1>>>>]

C25_Witness ==
    /\ C25_Fresh
    /\ \E i, j \in 1..Len(registry) :
        /\ i < j
        /\ config.buttons[i] \notin DOMAIN files
        /\ C25_Present(config.buttons[j], "command")

\* The pairs (executable, argument) that one whole set call or the
\* construction of a button leaves.
C26_Whole ==
    {StartedThreads(registry).commands[i] : i \in 1..Len(registry)}
        \cup {[cmd |-> c[1], arguments |-> c[2]] : c \in SetCommandChoices}

(* C26: set replaces executable and argument atomically with respect to    *)
(* every reader: the monitor, whenever it holds a command's guard, and a   *)
(* launch, in the guard it holds and in the pair it hands to its thread,   *)
(* never see the executable of one set call beside the argument of         *)
(* another call or of the earlier value.                                   *)
C26_SetIsAtomic ==
    /\ \A i \in 1..Len(commands) :
            guards.command[i] = "monitor" => commands[i] \in C26_Whole
    /\ uithread.pc \in {"click", "launched"} =>
            commands[uithread.index + 1] \in C26_Whole
    /\ \A k \in 1..Len(workers) :
            [cmd |-> workers[k].cmd, arguments |-> workers[k].arguments] \in C26_Whole

C26_Witness ==
    /\ uithread.pc = "set_cmd"
    /\ commands[uithread.index + 1] \notin C26_Whole
    /\ monitor.pc = "next"
    /\ monitor.index = uithread.index
    /\ \E k \in 1..Len(workers) :
            [cmd |-> workers[k].cmd, arguments |-> workers[k].arguments]
                = [cmd |-> Chars("foo"), arguments |-> ""]

C28_Case ==
    /\ op.kind \in {"delete", "new", "edit", "swap"}
    /\ op.status = "done"

C29_Emits(i) ==
    /\ Len(channel') = Len(channel) + 1
    /\ SubSeq(channel', 1, Len(channel)) = channel
    /\ channel'[Len(channel')][1] = i

(* C29: in every monitor cycle exactly one (index, running) event is       *)
(* emitted for each registry index 0..len-1, in increasing order, and none *)
(* for any other index: a cycle starts at index 0, every turn of an index  *)
(* emits that index's event and passes to the next index, the cycle ends   *)
(* only after index len-1, and nothing else puts an event in the channel.  *)
C29_OneEventPerIndex ==
    [][/\ (monitor.pc = "lock" /\ monitor' # monitor) =>
            (monitor'.pc = "next" /\ monitor'.index = 0 /\ channel' = channel)
       /\ (monitor.pc = "next" /\ monitor' # monitor) =>
            /\ channel' = channel
            /\ IF monitor.index < Len(registry)
               THEN monitor'.pc = "check" /\ monitor'.index = monitor.index
               ELSE monitor'.pc = "sleep"
       /\ (monitor.pc = "check" /\ monitor' # monitor) =>
            /\ C29_Emits(monitor.index)
            /\ monitor.index \in 0..(Len(registry) - 1)
            /\ monitor'.pc = "next"
            /\ monitor'.index = monitor.index + 1
       /\ Len(channel') > Len(channel) => monitor.pc = "check"]_vars

(* C30: applying an event (i, r) changes button i's indicator and redraws *)
(* it if and only if r differs from the indicator's current state; after  *)
(* the event is applied the indicator equals r and no other indicator has  *)
(* changed; an event whose index is outside the registry changes no        *)
(* indicator.                                                              *)
C30_ApplyDebounced ==
    [][(uithread.pc = "recv" /\ uithread'.pc = "loop") =>
            LET i == uithread.index + 1
                r == uithread.is_running
            IN  IF i \in 1..Len(registry)
                THEN /\ border'[i] = r
                     /\ border'[i] # border[i] <=> r # border[i]
                     /\ SetActive(border[i], r).redraw <=> r # border[i]
                     /\ \A j \in DOMAIN border \ {i} : border'[j] = border[j]
                ELSE border' = border]_vars

C30_Witness ==
    /\ uithread.pc = "loop"
    /\ uithread.index = Len(registry)
    /\ uithread.is_running
    /\ channel = <<>>
    /\ \E j \in DOMAIN border : ~border[j]

(* C35: the popup menu offers "move left" only for an index i >= 1 and     *)
(* "move right" only for an index i <= len-2, so that every swap the menu  *)
(* starts passes swap_buttons two indices inside 0..len-1; this for every  *)
(* list of one button or more.                                             *)
C35_SwapInRange ==
    [][\A i \in 0..MaxButtons :
        /\ MoveLeft(i) => (i >= 1 /\ i - 1 \in 0..(Len(buttons_names) - 1))
        /\ MoveRight(i) => (/\ i <= Len(buttons_names) - 2
                            /\ i + 1 \in 0..(Len(buttons_names) - 1))]_vars

(* C37: a button whose command is the empty string is reported as not     *)
(* running by every is_process_running call of the monitor, whatever the   *)
(* snapshot holds.                                                         *)
C37_EmptyCommandNotRunning ==
    (report.sent /\ report.cmd = <<>>) => ~report.is_running

(* C39: a set_value or remove_key call that cannot load e4docker.conf does *)
(* not rewrite the file: every key the file held before the call is still  *)
(* there with the same value after it.                                     *)
C39_FailedLoadKeepsFile ==
    [][(/\ script # <<>>
        /\ script' = Tail(script)
        /\ alert' = "cannot-load-e4docker-conf") =>
            \A k \in DOMAIN conf : k \in DOMAIN conf' /\ conf'[k] = conf[k]]_vars

(* C36: no sequence of new-button, edit, delete and swap operations        *)
(* changes or removes the template file generic.conf: its COMMAND,         *)
(* ARGUMENTS and ICON values stay what they were at the start, also when a *)
(* new button is confirmed under the pre-filled name "generic".            *)
C36_TemplateUntouched ==
    /\ GENERIC \in DOMAIN files
    /\ \A key \in {"COMMAND", "ARGUMENTS", "ICON"} :
        /\ IniHas(files[GENERIC], BUTTON_BUTTON_SECTION, Word(key))
        /\ IniGet(files[GENERIC], BUTTON_BUTTON_SECTION, Word(key))
              = IniGet(InitialGenericConf, BUTTON_BUTTON_SECTION, Word(key))

\* An edit of the button at ordinal op.i + 1 has been confirmed and all its
\* writes are done.
C32_Case ==
    /\ op.kind = "edit"
    /\ op.status = "done"
    /\ op.newname # GENERIC

(* C32: confirming an edit of the button at ordinal k with a name X other  *)
(* than "generic", command c and argument a leaves button_k = X persisted, *)
(* every other key of e4docker.conf (the other ordinals and                *)
(* NUMBER_OF_BUTTONS) as it was, and X's config file with COMMAND = c,     *)
(* ARGUMENTS = a and the remaining keys of the edited button's file.       *)
C32_EditResult ==
    C32_Case =>
        LET k == op.i + 1
            X == op.newname
            place == Key(E4DOCKER_BUTTON_SECTION, ButtonKey(k))
            kept == {Key(BUTTON_BUTTON_SECTION, Word("command")),
                     Key(BUTTON_BUTTON_SECTION, Word("arguments"))}
        IN  /\ place \in DOMAIN conf
            /\ conf[place] = X
            /\ DOMAIN conf = DOMAIN op.conf \cup {place}
            /\ \A key \in DOMAIN op.conf \ {place} : conf[key] = op.conf[key]
            /\ X \in DOMAIN files
            /\ IniHas(files[X], BUTTON_BUTTON_SECTION, Word("COMMAND"))
            /\ IniGet(files[X], BUTTON_BUTTON_SECTION, Word("COMMAND")) = op.command
            /\ IniHas(files[X], BUTTON_BUTTON_SECTION, Word("ARGUMENTS"))
            /\ IniGet(files[X], BUTTON_BUTTON_SECTION, Word("ARGUMENTS"))
                  = op.arguments
            /\ op.name \in DOMAIN op.files
            /\ DOMAIN files[X] = DOMAIN op.files[op.name] \cup kept
            /\ \A key \in DOMAIN op.files[op.name] \ kept :
                    files[X][key] = op.files[op.name][key]

\* The in-memory list the handler that starts in this step computes its
\* writes from: the popup handler's names vector for a swap, the E4Config's
\* buttons for delete, new-button save and edit save.
C33_StartsFrom == IF op'.kind = "swap" THEN buttons_names ELSE config.buttons

(* C33: whenever delete, new-button save, edit save or swap computes the   *)
(* list it persists, the in-memory list it starts from equals the list     *)
(* persisted on disk at that moment; so no such operation runs in an old   *)
(* instance on the data from before a change that has been persisted.      *)
C33_StartsFromPersisted ==
    [][(/\ script = <<>>
        /\ script' # <<>>
        /\ op'.kind \in {"swap", "delete", "new", "edit"}) =>
            C33_StartsFrom = PersistedList(conf)]_vars

\* The states reported for button i and not yet applied, oldest first: the
\* event the UI thread has received and is about to apply, then the events
\* of the channel.
RECURSIVE C31_Values(_, _)
C31_Values(events, i) ==
    IF events = <<>> THEN <<>>
    ELSE (IF Head(events)[1] = i THEN <<Head(events)[2]>> ELSE <<>>)
            \o C31_Values(Tail(events), i)

C31_Outstanding(recv, events, i) ==
    (IF recv.pc = "recv" /\ recv.index = i THEN <<recv.is_running>> ELSE <<>>)
        \o C31_Values(events, i)

(* C31: for every button index the UI thread applies the liveness events   *)
(* in the order the monitor emitted them: the events outstanding for the   *)
(* button form a queue, a step either leaves it alone, adds the monitor's  *)
(* new event at its end, or applies its oldest event to the indicator, so  *)
(* that no event of an earlier cycle is applied after one of a later cycle. *)
C31_AppliedInOrder ==
    [][\A i \in 0..(Len(registry) - 1) :
        LET before == C31_Outstanding(uithread, channel, i)
            after == C31_Outstanding(uithread', channel', i)
        IN  \/ after = before /\ border'[i + 1] = border[i + 1]
            \/ /\ Len(after) = Len(before) + 1
               /\ SubSeq(after, 1, Len(before)) = before
               /\ border'[i + 1] = border[i + 1]
            \/ /\ before # <<>>
               /\ after = Tail(before)
               /\ border'[i + 1] = Head(before)
            \/ ~alive']_vars

\* An event of button 1 has just been applied while a later event of the
\* same button, with the other state, waits in the channel.
C31_Witness ==
    /\ uithread.pc = "loop"
    /\ uithread.index = 1
    /\ ~uithread.is_running
    /\ ~border[2]
    /\ \E k \in DOMAIN channel : channel[k] = <<1, TRUE>>

\* The thread who holds the guard of some button's command.
C34_HoldsCommand(who) == \E i \in DOMAIN guards.command : guards.command[i] = who

\* No thread is at a request for the registry guard with a command guard in
\* its hands.
C34_NoRegistryWaitUnderCommand ==
    /\ monitor.pc = "lock" => ~C34_HoldsCommand("monitor")
    /\ uithread.pc = "recv" => ~C34_HoldsCommand("ui")

\* No thread is at a request for a guard it holds; the click callback and
\* the edit dialog make their requests from the loop, nothing in hand.
C34_NoSecondAcquire ==
    /\ monitor.pc = "lock" => guards.registry # "monitor"
    /\ (monitor.pc = "next" /\ monitor.index < Len(commands)) =>
            guards.command[monitor.index + 1] # "monitor"
    /\ uithread.pc = "recv" => guards.registry # "ui"
    /\ uithread.pc = "set" => guards.command[uithread.index + 1] # "ui"
    /\ uithread.pc \in {"loop", "modal"} =>
            (guards.registry # "ui" /\ ~C34_HoldsCommand("ui"))

(* C34: the program never deadlocks on its guards: no thread waits for the *)
(* registry guard while it holds a command guard, no thread requests a     *)
(* guard it already holds, and a thread that requests a guard obtains it:  *)
(* none of the monitor, the receive loop, the click callback, set_command  *)
(* and the edit dialog ends at a request without the guard.                *)
C34_NoGuardDeadlock ==
    /\ [](C34_NoRegistryWaitUnderCommand /\ C34_NoSecondAcquire)
    /\ [][/\ monitor.pc \in {"lock", "next"} => monitor'.pc # "panicked"
          /\ uithread.pc \in {"loop", "recv", "set"} =>
                uithread'.pc # "panicked"]_vars

(* C38: the events the monitor emits are applied and the backlog of the   *)
(* channel does not grow without bound, the nested loop of a modal dialog  *)
(* notwithstanding: while the edit dialog, opened with no event waiting,   *)
(* is shown, the events waiting never exceed those of one monitor cycle.   *)
C38_BacklogBounded ==
    uithread.pc = "modal" => Len(channel) <= Len(registry)

====
